---------------------------- MODULE Spec2Model ----------------------------
(***************************************************************************)
(* git-doc: the commit-processing orchestrator (internal/orchestrator),    *)
(* the persistent store (internal/state), the markdown section updater     *)
(* (internal/doc) and the cross-process run lock (internal/runlock),       *)
(* modelled as state machines.                                             *)
(*                                                                         *)
(* Conventions                                                             *)
(*  - a commit hash is a positive integer; 0 stands for the empty string   *)
(*  - a text is the non-empty sequence of its lines, i.e. the result of    *)
(*    strings.Split(text, "\n"); a trailing newline shows as a last empty  *)
(*    line.  A line is a record: lvl = number of leading '#' (0: no        *)
(*    heading), txt = the rest of the line, cr = the line ends with "\r"   *)
(***************************************************************************)
EXTENDS Integers, Sequences, FiniteSets, TLC

(***************************************************************************)
(* Texts                                                                   *)
(***************************************************************************)
Ln(l, t) == [lvl |-> l, txt |-> t, cr |-> FALSE]
EmptyLine == Ln(0, "")
EmptyText == <<EmptyLine>>

\* strings.TrimSpace(line) == ""
IsBlankLine(line) == line.lvl = 0 /\ line.txt = ""

Last(s) == s[Len(s)]
Front(s) == SubSeq(s, 1, Len(s) - 1)

\* string concatenation a + b on line sequences: the last line of a and the
\* first line of b become one line
JoinLine(x, y) ==
    IF x = EmptyLine THEN y
    ELSE IF y = EmptyLine THEN x
    ELSE [lvl |-> x.lvl, txt |-> <<x.txt, IF y.lvl > 0 THEN <<y.lvl, y.txt>> ELSE y.txt>>,
          cr |-> y.cr]
Cat(a, b) == Front(a) \o <<JoinLine(Last(a), b[1])>> \o Tail(b)

\* the first / last index of a line that is not blank, 0 when all are blank
FirstNonBlank(s) ==
    IF \A i \in 1..Len(s) : IsBlankLine(s[i]) THEN 0
    ELSE CHOOSE i \in 1..Len(s) :
            /\ ~IsBlankLine(s[i])
            /\ \A j \in 1..(i - 1) : IsBlankLine(s[j])
LastNonBlank(s) ==
    IF \A i \in 1..Len(s) : IsBlankLine(s[i]) THEN 0
    ELSE CHOOSE i \in 1..Len(s) :
            /\ ~IsBlankLine(s[i])
            /\ \A j \in (i + 1)..Len(s) : IsBlankLine(s[j])

\* strings.TrimSpace(text): leading and trailing blank lines go, and so does
\* the "\r" that ends the last line left
TrimSpace(s) ==
    IF FirstNonBlank(s) = 0 THEN EmptyText
    ELSE LET body == SubSeq(s, FirstNonBlank(s), LastNonBlank(s))
         IN  Front(body) \o <<[Last(body) EXCEPT !.cr = FALSE]>>

\* strings.TrimRight(text, "\n")
RECURSIVE TrimRightNewlines(_)
TrimRightNewlines(s) ==
    IF Len(s) > 1 /\ Last(s) = EmptyLine THEN TrimRightNewlines(Front(s)) ELSE s

\* strings.HasSuffix(text, "\n")
HasSuffixNewline(s) == Len(s) > 1 /\ Last(s) = EmptyLine

\* strings.ToLower on the section titles of the model
ToLower(t) ==
    CASE t = "Recent Changes" -> "recent changes"
      [] t = "RECENT CHANGES" -> "recent changes"
      [] t = "API" -> "api"
      [] t = "Title" -> "title"
      [] OTHER -> t

headingLevel(line) == IF line.lvl = 0 THEN 7 ELSE line.lvl

\* findSectionBounds: <<start, end, found>>, start and end 0-based as in the
\* source (lines[start:end] is the section's content)
findSectionBounds(lines, section) ==
    LET target == ToLower(section)
        isHdr(i) == lines[i].lvl > 0 /\ ToLower(lines[i].txt) = target
        hits == {i \in 1..Len(lines) : isHdr(i)}
    IN  IF hits = {} THEN <<0, 0, FALSE>>
        ELSE
          LET hdr == CHOOSE i \in hits : \A j \in hits : i <= j   \* 1-based
              headerLevel == headingLevel(lines[hdr])
              ends == {i \in (hdr + 1)..Len(lines) :
                          lines[i].lvl > 0 /\ headingLevel(lines[i]) <= headerLevel}
              \* 0-based index of the first later heading of at most that level
              end == IF ends = {} THEN Len(lines)
                     ELSE (CHOOSE i \in ends : \A j \in ends : i <= j) - 1
              \* 0-based startContent, moved past blank lines
              skip == {k \in hdr..end : \A j \in (hdr + 1)..k : IsBlankLine(lines[j])}
              startContent == CHOOSE k \in skip : \A j \in skip : j <= k
          IN  <<startContent, end, TRUE>>

\* MarkdownUpdater.ReplaceSection
ReplaceSection(content, section, newSectionContent) ==
    LET b == findSectionBounds(content, section)
        trimmed == TrimSpace(newSectionContent)
    IN  IF ~b[3]
        THEN LET c0 == TrimRightNewlines(content)
                 c1 == IF ~HasSuffixNewline(content) THEN Cat(c0, <<EmptyLine, EmptyLine>>) ELSE c0
                 c2 == Cat(c1, <<EmptyLine, Ln(2, section), EmptyLine, EmptyLine>>)
                 c3 == Cat(c2, trimmed)
             IN  Cat(c3, <<EmptyLine, EmptyLine>>)
        ELSE SubSeq(content, 1, b[1])
                \o (IF trimmed # EmptyText THEN trimmed ELSE <<>>)
                \o SubSeq(content, b[2] + 1, Len(content))

\* doc.DetectLineEnding: TRUE for "\r\n"
DetectLineEnding(content) == \E i \in 1..(Len(content) - 1) : content[i].cr

\* doc.NormalizeLineEndings
NormalizeLineEndings(content, crlf) ==
    LET n == Len(content)
        \* "\r\n" -> "\n", then a "\r" left at the very end -> "\n"
        lf == [i \in 1..n |-> [content[i] EXCEPT !.cr = FALSE]]
             \o (IF content[n].cr THEN <<EmptyLine>> ELSE <<>>)
    IN  [i \in 1..Len(lf) |-> [lf[i] EXCEPT !.cr = (crlf /\ i < Len(lf))]]


(***************************************************************************)
(* Bounds of the model                                                     *)
(***************************************************************************)
\* runs (UpdateNewCommits / UpdateRangeCommits / UpdateCommitList) per behaviour
MaxRuns == 2
\* injected failures (store, git, file system, provider), cancellations and
\* crashes per behaviour
MaxFaults == 1
\* length of a commit list handed to UpdateCommitList directly
MaxList == 2
\* commits taken through the pipeline per behaviour, over all runs
MaxProc == 2
\* PutCachedLLMResponse calls made directly on the store per behaviour
MaxPuts == 2
\* MarkCommitProcessed calls made directly on the store per behaviour
MaxMarks == 3
\* Enable and Disable calls of the hook manager per behaviour
MaxHookCalls == 3
\* the changed files of a commit and the mappings of a configuration
MaxChanged == 2
MaxMappings == 2
MaxLegacyRows == 2
\* the failures of a provider before it answers
MaxFail == 3
\* the retry budget a ResilientClient is built with
MaxRetriesGiven == 2

(***************************************************************************)
(* State                                                                   *)
(***************************************************************************)
VARIABLES
    rows,       \* processed_commits: hash -> row
    planned,    \* planned_updates: <<commit, doc_file, section_id>> -> row
    cache,      \* llm_cache: six-field key -> response_text
    mappings,   \* mappings rows
    events,     \* run_events rows
    commits,    \* the repository's commits, by hash: parent and changed files
    head,       \* HEAD
    files,      \* the doc files of the working tree: name -> text, or Missing
    cfg,        \* config.Config
    pc,         \* where the orchestrator is
    run,        \* the running top-level operation: its arguments and locals
    loc,        \* processSingleCommit's locals for the commit in hand
    ret,        \* what the last operation that returned gave back
    hist,       \* per commit: how its last finished processing went
    ctxDone,    \* the run's context is cancelled
    faults,     \* failures injected so far
    lockFile,   \* .git-doc/run.lock: absent, or who created it and what it holds
    lk,         \* per process: where it is in Acquire / Release
    lastCall,   \* the Acquire call that returned last
    rc,         \* a ResilientClient, its providers and its Generate call
    cacheOp,    \* the llm_cache operations made directly on the store
    storeOp,    \* the MarkCommitProcessed calls made directly on the store
    hooks,      \* .git/hooks: the hook files, their backups, the Manager's calls
    upd,        \* an `update` command run by a second process
    tgt,        \* a resolveTarget call: its changed files and its result
    db          \* a state database being opened: its tables and Store.New's position

storeVars == <<rows, planned, cache, mappings, events>>
gitVars == <<commits, head>>
orchVars == <<rows, planned, cache, mappings, events, commits, head, files, cfg,
              pc, run, loc, ret, hist, ctxDone, faults>>
lockVars == <<lockFile, lk, lastCall>>
moreVars == <<storeOp, hooks, upd, tgt, db>>
sideVars == <<rc, cacheOp, moreVars>>
vars == <<orchVars, lockVars, sideVars>>

(***************************************************************************)
(* Paths and target resolution                                             *)
(***************************************************************************)
\* the characters of the path and pattern strings of the model
Chars(s) ==
    CASE s = "README.md"    -> <<"R", "E", "A", "D", "M", "E", ".", "m", "d">>
      [] s = "docs/API.md"  -> <<"d", "o", "c", "s", "/", "A", "P", "I", ".", "m", "d">>
      [] s = "src/a.go"     -> <<"s", "r", "c", "/", "a", ".", "g", "o">>
      [] s = "src/.go"      -> <<"s", "r", "c", "/", ".", "g", "o">>
      [] s = "api/x.go"     -> <<"a", "p", "i", "/", "x", ".", "g", "o">>
      [] s = "api/*"        -> <<"a", "p", "i", "/", "*">>
      [] s = "*.go"         -> <<"*", ".", "g", "o">>
      [] s = "src/*.go"     -> <<"s", "r", "c", "/", "*", ".", "g", "o">>
      [] s = "*"            -> <<"*">>
      [] OTHER              -> <<>>

\* strings.Trim(s, "*") on characters
RECURSIVE TrimStars(_)
TrimStars(cs) ==
    IF cs = <<>> THEN cs
    ELSE IF cs[1] = "*" THEN TrimStars(Tail(cs))
    ELSE IF Last(cs) = "*" THEN TrimStars(Front(cs))
    ELSE cs

\* strings.Contains(s, sub) on characters
Contains(s, sub) ==
    \E i \in 0..(Len(s) - Len(sub)) : SubSeq(s, i + 1, i + Len(sub)) = sub

\* the condition of updater.go:279
mappingMatches(changed, mapping) ==
    Contains(Chars(changed), TrimStars(Chars(mapping.CodePattern)))

\* a resolution that tries each mapping, in declaration order, on every file
resolveTargetByMapping(changedFiles) ==
    LET pairs == {<<i, j>> \in (1..Len(changedFiles)) \X (1..Len(cfg.Mappings)) :
                      mappingMatches(changedFiles[i], cfg.Mappings[j])}
        before(a, b) == a[2] < b[2] \/ (a[2] = b[2] /\ a[1] <= b[1])
    IN  IF pairs # {}
        THEN LET first == CHOOSE a \in pairs : \A b \in pairs : before(a, b)
             IN  <<cfg.Mappings[first[2]].DocFile, cfg.Mappings[first[2]].Section>>
        ELSE IF Len(cfg.DocFiles) > 0
        THEN <<cfg.DocFiles[1], cfg.Runtime.DefaultSection>>
        ELSE <<"README.md", cfg.Runtime.DefaultSection>>

\* Updater.resolveTarget: <<doc file, section>>
resolveTarget(changedFiles) ==
    LET pairs == {<<i, j>> \in (1..Len(changedFiles)) \X (1..Len(cfg.Mappings)) :
                      mappingMatches(changedFiles[i], cfg.Mappings[j])}
        before(a, b) == a[1] < b[1] \/ (a[1] = b[1] /\ a[2] <= b[2])
    IN  IF pairs # {}
        THEN LET first == CHOOSE a \in pairs : \A b \in pairs : before(a, b)
             IN  <<cfg.Mappings[first[2]].DocFile, cfg.Mappings[first[2]].Section>>
        ELSE IF Len(cfg.DocFiles) > 0
        THEN <<cfg.DocFiles[1], cfg.Runtime.DefaultSection>>
        ELSE <<"README.md", cfg.Runtime.DefaultSection>>

\* git lists changed paths in byte order
PathOrder == <<"README.md", "api/x.go", "docs/API.md", "src/a.go">>
SortPaths(S) == SelectSeq(PathOrder, LAMBDA p : p \in S)
SeqRange(s) == {s[i] : i \in 1..Len(s)}

(***************************************************************************)
(* The persistent store (internal/state)                                   *)
(***************************************************************************)
NullText == "<NULL>"
NullHash == -1
nullIfEmpty(s) == IF s = "" THEN NullText ELSE s
nullIfEmptyHash(h) == IF h = 0 THEN NullHash ELSE h

StatusSet == {"pending", "in_progress", "success", "failed", "skipped"}
Terminal == {"success", "failed", "skipped"}

SetMax(S) == CHOOSE x \in S : \A y \in S : y <= x

\* processed_at is CURRENT_TIMESTAMP, one-second resolution: a write is
\* stamped with the latest stamp in the table or with a later one.  Only the
\* order of the stamps is read (ORDER BY), so they are kept as ranks.
LatestAt(r) == IF DOMAIN r = {} THEN 0 ELSE SetMax({r[h].at : h \in DOMAIN r})
Nows(r) == {LatestAt(r), LatestAt(r) + 1} \ {0}
Ranked(r) ==
    [h \in DOMAIN r |->
        [r[h] EXCEPT !.at = Cardinality({r[k].at : k \in {x \in DOMAIN r : r[x].at < r[h].at}}) + 1]]

\* an upsert that keeps the doc commit of the row when it is given none
MarkCommitProcessedKeepingDocCommit(r, commitHash, status, errText, docCommit, filesChanged, now) ==
    Ranked([h \in DOMAIN r \cup {commitHash} |->
              IF h = commitHash
              THEN [status |-> status, error |-> nullIfEmpty(errText),
                    doc_commit_hash |-> IF docCommit = 0 /\ h \in DOMAIN r
                                        THEN r[h].doc_commit_hash
                                        ELSE nullIfEmptyHash(docCommit),
                    doc_files_changed |-> filesChanged, at |-> now]
              ELSE r[h]])

\* an upsert that never replaces a doc commit once the row has one
MarkCommitProcessedLinkingOnce(r, commitHash, status, errText, docCommit, filesChanged, now) ==
    Ranked([h \in DOMAIN r \cup {commitHash} |->
              IF h = commitHash
              THEN [status |-> status, error |-> nullIfEmpty(errText),
                    doc_commit_hash |-> IF h \in DOMAIN r /\ r[h].doc_commit_hash # NullHash
                                        THEN r[h].doc_commit_hash
                                        ELSE nullIfEmptyHash(docCommit),
                    doc_files_changed |-> filesChanged, at |-> now]
              ELSE r[h]])

\* Store.MarkCommitProcessed, stamped now
MarkCommitProcessed(r, commitHash, status, errText, docCommit, filesChanged, now) ==
    Ranked([h \in DOMAIN r \cup {commitHash} |->
              IF h = commitHash
              THEN [status |-> status, error |-> nullIfEmpty(errText),
                    doc_commit_hash |-> nullIfEmptyHash(docCommit),
                    doc_files_changed |-> filesChanged, at |-> now]
              ELSE r[h]])

\* the sequences a query with ORDER BY processed_at ASC over the rows S may return
OrderedByAt(r, S) ==
    {s \in [1..Cardinality(S) -> S] :
        /\ \A i, j \in 1..Cardinality(S) : i < j => s[i] # s[j] /\ r[s[i]].at <= r[s[j]].at}

WithStatus(r, sts) == {h \in DOMAIN r : r[h].status \in sts}

\* a query that forgets the rows left in_progress
GetPendingCommits(r) == OrderedByAt(r, WithStatus(r, {"pending"}))

\* Store.GetResumableCommits: the results it may give
GetResumableCommits(r) == OrderedByAt(r, WithStatus(r, {"pending", "in_progress"}))
\* Store.GetRetryableCommits
GetRetryableCommits(r) == OrderedByAt(r, WithStatus(r, {"failed", "in_progress"}))
\* Store.GetFailedCommits
GetFailedCommits(r) == OrderedByAt(r, WithStatus(r, {"failed"}))

\* a query that takes the success row of the commit made last
GetLatestSuccessInHistory(r) == IF WithStatus(r, {"success"}) = {} THEN {0} ELSE {SetMax(WithStatus(r, {"success"}))}

\* a query that orders the success rows the other way round
GetFirstProcessedCommit(r) ==
    LET succ == WithStatus(r, {"success"})
    IN  IF succ = {} THEN {0}
        ELSE {h \in succ : \A k \in succ : r[h].at <= r[k].at}

\* Store.GetLastProcessedCommit (ORDER BY processed_at DESC LIMIT 1): the
\* results it may give; 0 is the empty string
GetLastProcessedCommit(r) ==
    LET succ == WithStatus(r, {"success"})
    IN  IF succ = {} THEN {0}
        ELSE {h \in succ : \A k \in succ : r[k].at <= r[h].at}

\* Store.GetDocCommitHash
GetDocCommitHash(r, h) ==
    IF h \notin DOMAIN r THEN 0
    ELSE IF r[h].doc_commit_hash = NullHash THEN 0 ELSE r[h].doc_commit_hash

\* Store.UpsertPlannedUpdate
UpsertPlannedUpdate(p, commitHash, docFile, sectionID, strategy, status, reason) ==
    [k \in DOMAIN p \cup {<<commitHash, docFile, sectionID>>} |->
        IF k = <<commitHash, docFile, sectionID>>
        THEN [strategy |-> strategy, status |-> status, reason |-> nullIfEmpty(reason)]
        ELSE p[k]]

\* hashPrompt: sha256 of the prompt, taken to be collision free
hashPrompt(prompt) == <<"sha256", prompt>>

CacheKey(commitHash, docFile, sectionID, provider, model, promptHash) ==
    [commit_hash |-> commitHash, doc_file |-> docFile, section_id |-> sectionID,
     provider |-> provider, model |-> model, prompt_hash |-> promptHash]

\* a lookup that never finds an entry
GetCachedLLMResponseMiss(c, commitHash, docFile, sectionID, provider, model, prompt) == <<EmptyText, FALSE>>

\* Store.GetCachedLLMResponse: <<response, hit>>
GetCachedLLMResponse(c, commitHash, docFile, sectionID, provider, model, prompt) ==
    LET k == CacheKey(commitHash, docFile, sectionID, provider, model, hashPrompt(prompt))
    IN  IF k \in DOMAIN c THEN <<c[k], TRUE>> ELSE <<EmptyText, FALSE>>

\* an insert that leaves an existing entry as it is (INSERT OR IGNORE)
PutCachedLLMResponseOnce(c, entry) ==
    LET k == CacheKey(entry.CommitHash, entry.DocFile, entry.SectionID,
                      entry.Provider, entry.Model, entry.PromptHash)
    IN  [x \in DOMAIN c \cup {k} |-> IF x \in DOMAIN c THEN c[x] ELSE entry.Response]

\* Store.PutCachedLLMResponse (for a non-empty PromptHash)
PutCachedLLMResponse(c, entry) ==
    LET k == CacheKey(entry.CommitHash, entry.DocFile, entry.SectionID,
                      entry.Provider, entry.Model, entry.PromptHash)
    IN  [x \in DOMAIN c \cup {k} |-> IF x = k THEN entry.Response ELSE c[x]]

\* Store.LogRunEvent; ok = the insert went through
LogRunEvent(ev, ok, commitHash, level, component, message) ==
    IF ok THEN ev \cup {[commit_hash |-> nullIfEmptyHash(commitHash), level |-> level,
                         component |-> component, message |-> message]}
    ELSE ev

\* Store.StoreMapping
StoreMapping(m, commitHash, docFile, section) ==
    m \cup {[code_commit_hash |-> commitHash, doc_file |-> docFile, section |-> section]}


(***************************************************************************)
(* The commit source (internal/gitutil); history is linear                 *)
(***************************************************************************)
Missing == <<>>

\* the ancestors of h, oldest first, h included (git log --reverse h)
RECURSIVE Ancestors(_)
Ancestors(h) == IF h = 0 THEN <<>> ELSE Append(Ancestors(commits[h].parent), h)

\* a range that leaves its upper end out
GetRangeBelowHead(fromHash, toHash) == SelectSeq(Ancestors(toHash), LAMBDA h : h # toHash /\ h \notin SeqRange(Ancestors(fromHash)))

\* a range that ignores its lower end
GetWholeHistory(fromHash, toHash) == Ancestors(toHash)

\* CLIHelper.GetLastProcessedRange: from..to, or every ancestor of to
GetLastProcessedRange(fromHash, toHash) ==
    IF fromHash # 0
    THEN SelectSeq(Ancestors(toHash), LAMBDA h : h \notin SeqRange(Ancestors(fromHash)))
    ELSE Ancestors(toHash)

\* a commit source that reports the files of the first commit for every commit
GetChangedFilesOfRoot(h) == commits[1].changed

\* CLIHelper.GetChangedFiles
GetChangedFiles(h) == commits[h].changed
\* CLIHelper.GetCommitMessage, CLIHelper.GetCommitDiff: fixed by the commit
GetCommitMessage(h) == <<"message", h>>
GetCommitDiff(h) == <<"diff", h>>

\* CLIHelper.StageAndCommit: the commits and HEAD after it; the new hash is HEAD
StageAndCommit(fs) ==
    [commits |-> Append(commits, [parent |-> head, changed |-> SortPaths(SeqRange(fs))]),
     head |-> Len(commits) + 1]
\* CLIHelper.StageAndAmend: HEAD is replaced by a commit that also holds the files
StageAndAmend(fs) ==
    [commits |-> Append(commits,
                    [parent |-> commits[head].parent,
                     changed |-> SortPaths(SeqRange(commits[head].changed) \cup SeqRange(fs))]),
     head |-> Len(commits) + 1]

(***************************************************************************)
(* The orchestrator's pure helpers (internal/orchestrator/updater.go)      *)
(***************************************************************************)
\* buildPrompt: the template filled with the message and the diff context
buildPrompt(commitMessage, diff) == [message |-> commitMessage, diffContext |-> <<"summary", diff>>]

RECURSIVE appendUnique(_, _)
appendUnique(out, items) ==
    IF items = <<>> THEN out
    ELSE IF items[1] = 0 \/ items[1] \in SeqRange(out) THEN appendUnique(out, Tail(items))
    ELSE appendUnique(Append(out, items[1]), Tail(items))

\* a merge that keeps repeats
mergeKeepingRepeats(first, second) == first \o second

\* mergeUnique
mergeUnique(first, second) == appendUnique(appendUnique(<<>>, first), second)

\* len() of the texts of the model, in bytes
TxtLen(t) ==
    CASE t = "" -> 0
      [] t = "new" -> 3
      [] t = "old" -> 3
      [] t = "API" -> 3
      [] t = "Title" -> 5
      [] t = "Reference" -> 9
      [] t = "Recent Changes" -> 14
      [] t = "x25000" -> 25000
      [] t = "x25001" -> 25001
      [] OTHER -> 1
LineLen(line) ==
    (IF line.lvl > 0 THEN line.lvl + 1 ELSE 0) + TxtLen(line.txt) + (IF line.cr THEN 1 ELSE 0)
RECURSIVE TextLen(_)
TextLen(s) == IF Len(s) = 1 THEN LineLen(s[1]) ELSE LineLen(s[1]) + 1 + TextLen(Tail(s))

MaxSectionLen == 25000

\* a validation that refuses a text of the maximum length as well
validateGeneratedSectionBelowMax(content) ==
    LET trimmed == TrimSpace(content)
    IN  IF trimmed = EmptyText THEN "generated section content is empty"
        ELSE IF TextLen(trimmed) >= MaxSectionLen THEN "generated section content exceeds max size"
        ELSE ""

\* validateGeneratedSection: the error text, "" for nil
validateGeneratedSection(content) ==
    LET trimmed == TrimSpace(content)
    IN  IF trimmed = EmptyText THEN "generated section content is empty"
        ELSE IF TextLen(trimmed) > MaxSectionLen THEN "generated section content exceeds max size"
        ELSE ""

\* an error that does not name the file
ErrNotFoundUnnamed(f) == "target doc file not found"

\* fmt.Errorf("target doc file not found: %s", targetDocFile)
ErrNotFound(f) ==
    IF f = "README.md" THEN "target doc file not found: README.md"
    ELSE "target doc file not found: docs/API.md"
ErrStore == "mark commit processed: database is locked"
ErrGit == "git failed"
ErrProvider == "provider request failed"
ErrCanceled == "context canceled"
ErrWrite == "atomic rename: i/o error"
ErrMapping == "database is locked"
ErrSetup == "setup failed"

(***************************************************************************)
(* Initial state                                                           *)
(***************************************************************************)
Doc0 == <<Ln(1, "Title"), EmptyLine, Ln(2, "Recent Changes"), Ln(0, "old"), EmptyLine>>
DocApi == <<Ln(1, "Reference"), EmptyLine>>

TNew == <<Ln(0, "new")>>
THeading == <<Ln(2, "Recent Changes"), Ln(0, "new")>>
TBlank == <<EmptyLine, EmptyLine>>
\* a text of exactly 25000 bytes and one of 25001, each followed by a blank line
TMax == <<Ln(0, "x25000"), EmptyLine>>
TOver == <<Ln(0, "x25001"), EmptyLine>>
\* what a provider may answer
GenTexts == {TNew, THeading, TBlank, TMax, TOver}

ProviderName == "resilient(mock)"

\* a configuration: the defaults, one mapping, and the two git switches
Config(commitDocUpdates, amendOriginal) ==
    [LLM |-> [Model |-> "gpt-4o-mini"],
     DocFiles |-> <<"README.md">>,
     Mappings |-> <<[CodePattern |-> "api/*", DocFile |-> "docs/API.md", Section |-> "API"]>>,
     Git |-> [CommitDocUpdates |-> commitDocUpdates, AmendOriginal |-> amendOriginal],
     Runtime |-> [DefaultSection |-> "Recent Changes"]]

\* the repositories a behaviour starts from: the commits, oldest first, with
\* the files each changed, the content of docs/API.md, and the configuration
Commit(p, changed) == [parent |-> p, changed |-> changed]
World(cs, api, c) == [commits |-> cs, api |-> api, cfg |-> c]
Worlds ==
    {World(<<Commit(0, <<"src/a.go">>)>>, Missing, Config(FALSE, FALSE)),
     World(<<Commit(0, <<"src/a.go">>)>>, Missing, Config(TRUE, FALSE)),
     World(<<Commit(0, <<"src/a.go">>)>>, Missing, Config(TRUE, TRUE)),
     World(<<Commit(0, <<"src/a.go">>), Commit(1, <<>>)>>, Missing, Config(FALSE, FALSE)),
     World(<<Commit(0, <<"src/a.go">>), Commit(1, <<"api/x.go">>)>>, Missing,
           Config(FALSE, FALSE)),
     World(<<Commit(0, <<"src/a.go">>), Commit(1, <<"api/x.go">>)>>, DocApi,
           Config(FALSE, FALSE))}
Summary0 == [Processed |-> 0, Success |-> 0, Failed |-> 0, Skipped |-> 0]
RunIdle(n) ==
    [n |-> n, done |-> 0, kind |-> "none", dryRun |-> FALSE, list |-> <<>>, idx |-> 0,
     summary |-> Summary0, visited |-> <<>>, resumable |-> <<>>, range |-> <<>>,
     \* observers of the run, not read by it: what the store and the repository
     \* held when it started, and how the run before it ended
     last |-> 0, stale |-> {}, head0 |-> 0, f0 |-> 0, prevC1 |-> 0, c1Latest |-> FALSE,
     storeFailed |-> FALSE]
LocInit(h) ==
    [hash |-> h, targetDocFile |-> "", targetSection |-> "", docRaw |-> Missing,
     prompt |-> <<>>, newSection |-> EmptyText, cached |-> FALSE, updated |-> Missing,
     docCommitHash |-> 0, status |-> "", err |-> "",
     \* observers of the processing, not read by it
     writes |-> <<>>, generated |-> FALSE, wrote |-> FALSE, staged |-> FALSE,
     amended |-> FALSE, delta |-> FALSE, faulted |-> FALSE,
     commitCalls |-> 0, amendCalls |-> 0, inFlight |-> FALSE]
RetNone == [kind |-> "none", summary |-> Summary0, err |-> "", c1 |-> 0]
EmptyFn == [x \in {} |-> 0]

InitOrchestrator ==
    /\ rows = EmptyFn /\ planned = EmptyFn /\ cache = EmptyFn
    /\ mappings = {} /\ events = {}
    /\ \E w \in Worlds :
         /\ commits = w.commits
         /\ files = [f \in {"README.md", "docs/API.md"} |->
                        IF f = "README.md" THEN Doc0 ELSE w.api]
         /\ cfg = w.cfg
    /\ head = Len(commits)
    /\ pc = "idle" /\ run = RunIdle(0) /\ loc = LocInit(0) /\ ret = RetNone
    /\ hist = EmptyFn /\ ctxDone = FALSE /\ faults = 0


(***************************************************************************)
(* Failure injection: an operation of the store, the commit source, the    *)
(* file system or the provider may fail while the budget lasts             *)
(***************************************************************************)
OkSet(used) == IF faults + used < MaxFaults THEN BOOLEAN ELSE {TRUE}
Cost(ok) == IF ok THEN 0 ELSE 1

Bump(summary, field) == [summary EXCEPT ![field] = @ + 1]

\* `break` in the place of `continue`: the rest of the list is dropped
Break(r) == [r EXCEPT !.idx = Len(r.list) + 1]

\* a loop that leaves the rest of the list once the context is cancelled
ContinueUnlessCancelled(r) == [r EXCEPT !.idx = IF ctxDone THEN Len(r.list) + 1 ELSE @ + 1]
\* `continue`, and the end of the loop body: the next commit of the list
Continue(r) == [r EXCEPT !.idx = @ + 1]

\* a switch that counts a skipped commit as processed once more
TallyFieldSkippedTwice(status) ==
    CASE status = "success" -> "Success"
      [] status = "skipped" -> "Processed"
      [] OTHER -> "Failed"

\* the switch on the status a processing returned
TallyField(status) ==
    CASE status = "success" -> "Success"
      [] status = "skipped" -> "Skipped"
      [] OTHER -> "Failed"

\* a processing that does not look at dryRun
DryRunIgnored == FALSE

\* `if dryRun` of processSingleCommit
DryRunTaken == run.dryRun

\* a processing that does not look at amend_original
AmendIgnored == FALSE

\* `if u.deps.Config.Git.AmendOriginal` of processSingleCommit
AmendTaken == cfg.Git.AmendOriginal

\* the record of a finished processing of a commit
\* (unstaged: the text the processing wrote into the document without getting
\* to stage it, commit_doc_updates being on; seq: the number of the
\* processing among those made so far)
Finished(status, clean, doc) ==
    [status |-> status, dryRun |-> run.dryRun, clean |-> clean, doc |-> doc,
     seq |-> run.done,
     unstaged |-> IF loc.wrote /\ ~loc.staged /\ cfg.Git.CommitDocUpdates
                  THEN <<loc.newSection>> ELSE <<>>]
Record(h, status, clean, doc) ==
    [x \in DOMAIN hist \cup {h} |-> IF x = h THEN Finished(status, clean, doc) ELSE hist[x]]

(***************************************************************************)
(* Updater.UpdateCommitList, lines 99-101: the loop is entered             *)
(***************************************************************************)
EnterLoop(kind, commitHashes, dryRun, resumable, last, range) ==
    /\ \E logOk \in OkSet(0) :
        /\ events' = LogRunEvent({}, logOk, 0, "info", "orchestrator", "update loop started")
        /\ faults' = faults + Cost(logOk)
    /\ run' = [n |-> run.n + 1, done |-> run.done, kind |-> kind, dryRun |-> dryRun,
               list |-> commitHashes, idx |-> 1, summary |-> Summary0, visited |-> <<>>,
               resumable |-> resumable, range |-> range, last |-> last,
               stale |-> {h \in DOMAIN rows : rows[h].status \in {"pending", "in_progress"}},
               head0 |-> head, f0 |-> faults', prevC1 |-> ret.c1,
               c1Latest |-> /\ ret.c1 \in DOMAIN rows
                            /\ \A h \in DOMAIN rows \ {ret.c1} :
                                  rows[h].status = "success" => rows[h].at < rows[ret.c1].at,
               storeFailed |-> FALSE]
    /\ pc' = "loop"
    /\ ctxDone' = FALSE
    /\ loc' = LocInit(0)
    /\ ret' = RetNone
    /\ UNCHANGED <<lockVars, sideVars, rows, planned, cache, mappings, commits, head, files, cfg, hist>>

\* a top-level operation whose setup (a store query, a commit-source call) fails
SetupFails(kind) ==
    /\ faults < MaxFaults
    /\ faults' = faults + 1
    /\ run' = [RunIdle(run.n + 1) EXCEPT !.done = run.done, !.kind = kind]
    /\ ret' = [kind |-> kind, summary |-> Summary0, err |-> ErrSetup, c1 |-> 0]
    /\ loc' = LocInit(0)
    /\ UNCHANGED <<lockVars, sideVars, storeVars, gitVars, files, cfg, pc, hist, ctxDone>>

\* Updater.UpdateNewCommits
UpdateNewCommits ==
    /\ pc = "idle" /\ run.n < MaxRuns
    /\ \/ SetupFails("new")
       \/ \E dryRun \in BOOLEAN :
          \E resumableCommits \in GetResumableCommits(rows) :
          \E last \in GetLastProcessedCommit(rows) :
            LET commitHashes == GetLastProcessedRange(last, head)
            IN  EnterLoop("new", mergeUnique(resumableCommits, commitHashes), dryRun,
                          resumableCommits, last, commitHashes)

\* Updater.UpdateRangeCommits; toHash 0 is the blank that defaults to HEAD
UpdateRangeCommits ==
    /\ pc = "idle" /\ run.n < MaxRuns
    /\ \/ SetupFails("list")
       \/ \E dryRun \in BOOLEAN, fromHash \in 0..Len(commits), toHash \in 0..Len(commits) :
            LET toCommit == IF toHash = 0 THEN head ELSE toHash
                commitHashes == GetLastProcessedRange(fromHash, toCommit)
            IN  EnterLoop("list", commitHashes, dryRun, <<>>, 0, <<>>)

\* the commit lists a caller may pass: any existing commits, repeats allowed
CommitLists ==
    UNION {[1..n -> 1..Len(commits)] : n \in 0..MaxList}

\* Updater.UpdateCommitList called directly (the retry command passes the
\* retryable commits or one chosen commit)
UpdateCommitList ==
    /\ pc = "idle" /\ run.n < MaxRuns
    /\ \E dryRun \in BOOLEAN, commitHashes \in CommitLists \cup GetRetryableCommits(rows) :
            EnterLoop("list", commitHashes, dryRun, <<>>, 0, <<>>)

\* a pending failure that goes on to the next commit without counting
PendingFailureUncounted(r) == Continue([r EXCEPT !.storeFailed = TRUE])
\* lines 106-108: summary.Failed++ and `continue`
PendingFailure(r) ==
    Continue([r EXCEPT !.summary = Bump(@, "Failed"), !.storeFailed = TRUE])

(***************************************************************************)
(* Updater.UpdateCommitList, lines 103-109: the next commit is marked      *)
(* pending                                                                 *)
(***************************************************************************)
MarkPending ==
    /\ pc = "loop" /\ run.idx <= Len(run.list)
    /\ run.done < MaxProc
    /\ LET hash == run.list[run.idx]
           counted == [run EXCEPT !.summary = Bump(@, "Processed"),
                                  !.visited = Append(@, hash), !.done = @ + 1]
       IN  \E ok \in OkSet(0) :
             IF ok
             THEN /\ \E now \in Nows(rows) :
                        rows' = MarkCommitProcessed(rows, hash, "pending", "", 0, <<>>, now)
                  /\ run' = counted
                  /\ loc' = [LocInit(hash) EXCEPT !.writes = <<"pending">>]
                  /\ pc' = "in_progress"
                  /\ UNCHANGED <<events, hist, faults>>
             ELSE /\ \E logOk \in OkSet(1) :
                        /\ events' = LogRunEvent(events, logOk, hash, "error", "state",
                                                 "failed to mark pending")
                        /\ faults' = faults + 1 + Cost(logOk)
                  /\ run' = PendingFailure(counted)
                  /\ hist' = Record(hash, "failed", FALSE, Missing)
                  /\ loc' = LocInit(0)
                  /\ pc' = "loop"
                  /\ UNCHANGED rows
    /\ UNCHANGED <<lockVars, sideVars, planned, cache, mappings, gitVars, files, cfg, ret, ctxDone>>

(***************************************************************************)
(* Updater.processSingleCommit                                             *)
(***************************************************************************)
\* a failure that loses the text of its error
FailedWithoutText(l, e) == [l EXCEPT !.err = "", !.status = "failed", !.faulted = TRUE]
Failed(l, e) == [l EXCEPT !.err = e, !.status = "failed", !.faulted = TRUE]

\* lines 140-142
MarkInProgress ==
    /\ pc = "in_progress"
    /\ \E ok \in OkSet(0) :
         /\ IF ok
            THEN /\ \E now \in Nows(rows) :
                       rows' = MarkCommitProcessed(rows, loc.hash, "in_progress", "", 0, <<>>, now)
                 /\ loc' = [loc EXCEPT !.writes = Append(@, "in_progress")]
                 /\ pc' = "plan"
            ELSE /\ loc' = Failed(loc, ErrStore)
                 /\ pc' = "fail"
                 /\ UNCHANGED rows
         /\ faults' = faults + Cost(ok)
    /\ UNCHANGED <<lockVars, sideVars, planned, cache, mappings, events, gitVars, files, cfg, run, ret,
                  hist, ctxDone>>

\* lines 144-183: the commit is read, its target resolved and read, and the
\* plan recorded; a commit without changed files is marked skipped
Plan ==
    /\ pc = "plan"
    /\ \E readOk \in OkSet(0) :
         IF ~readOk
         THEN /\ loc' = Failed(loc, ErrGit)
              /\ pc' = "fail"
              /\ faults' = faults + 1
              /\ UNCHANGED <<rows, planned, events>>
         ELSE
           LET changedFiles == GetChangedFiles(loc.hash)
               target == resolveTarget(changedFiles)
               docRaw == files[target[1]]
           IN  IF Len(changedFiles) = 0
               THEN \E ok \in OkSet(0) :
                      /\ IF ok
                         THEN /\ \E now \in Nows(rows) :
                                    rows' = MarkCommitProcessed(rows, loc.hash, "skipped", "", 0,
                                                                <<>>, now)
                              /\ loc' = [loc EXCEPT !.status = "skipped",
                                                    !.writes = Append(@, "skipped")]
                              /\ pc' = "tally"
                         ELSE /\ loc' = Failed(loc, ErrStore)
                              /\ pc' = "fail"
                              /\ UNCHANGED rows
                      /\ faults' = faults + Cost(ok)
                      /\ UNCHANGED <<planned, events>>
               ELSE IF docRaw = Missing
               THEN /\ loc' = [loc EXCEPT !.err = ErrNotFound(target[1]), !.status = "failed",
                                          !.targetDocFile = target[1], !.targetSection = target[2]]
                    /\ pc' = "fail"
                    /\ UNCHANGED <<rows, planned, events, faults>>
               ELSE \E upOk \in OkSet(0) :
                      /\ IF upOk
                         THEN /\ planned' = UpsertPlannedUpdate(planned, loc.hash, target[1],
                                                target[2], "inferred", "planned", "")
                              /\ UNCHANGED events
                         ELSE /\ events' = LogRunEvent(events, TRUE, loc.hash, "warn", "state",
                                                       "failed to persist planned update")
                              /\ UNCHANGED planned
                      /\ loc' = [loc EXCEPT !.targetDocFile = target[1],
                                            !.targetSection = target[2],
                                            !.docRaw = docRaw,
                                            !.prompt = buildPrompt(GetCommitMessage(loc.hash),
                                                                   GetCommitDiff(loc.hash)),
                                            !.faulted = @ \/ ~upOk]
                      /\ pc' = "cache"
                      /\ faults' = faults + Cost(upOk)
                      /\ UNCHANGED rows
    /\ UNCHANGED <<lockVars, sideVars, cache, mappings, gitVars, files, cfg, run, ret, hist, ctxDone>>

\* lines 185-193 and 211-213: the cache is asked
CacheLookup ==
    /\ pc = "cache"
    /\ \E readOk \in OkSet(0) :
         LET got == IF readOk
                    THEN GetCachedLLMResponse(cache, loc.hash, loc.targetDocFile,
                             loc.targetSection, ProviderName, cfg.LLM.Model, loc.prompt)
                    ELSE <<EmptyText, FALSE>>
         IN  /\ loc' = [loc EXCEPT !.newSection = got[1], !.cached = got[2],
                                   !.faulted = @ \/ ~readOk]
             /\ events' = IF ~readOk
                          THEN LogRunEvent(events, TRUE, loc.hash, "warn", "state",
                                           "failed to read llm cache")
                          ELSE IF got[2]
                          THEN LogRunEvent(events, TRUE, loc.hash, "info", "llm", "cache hit")
                          ELSE events
             /\ pc' = IF got[2] THEN "apply" ELSE "generate"
             /\ faults' = faults + Cost(readOk)
    /\ UNCHANGED <<lockVars, sideVars, rows, planned, cache, mappings, gitVars, files, cfg, run, ret,
                  hist, ctxDone>>

\* lines 196-210: the provider answers (or fails) and the answer is cached.
\* A context cancelled before the call makes the client return the context's
\* error without invoking a provider; one cancelled while the call is under
\* way may be seen by the client, or not
Generate ==
    /\ pc = "generate"
    /\ \/ \E text \in GenTexts, putOk \in OkSet(0) :
            /\ ~ctxDone \/ loc.inFlight
            /\ cache' = IF putOk
                        THEN PutCachedLLMResponse(cache,
                                [CommitHash |-> loc.hash, DocFile |-> loc.targetDocFile,
                                 SectionID |-> loc.targetSection, Provider |-> ProviderName,
                                 Model |-> cfg.LLM.Model, PromptHash |-> hashPrompt(loc.prompt),
                                 Response |-> text])
                        ELSE cache
            /\ loc' = [loc EXCEPT !.newSection = text, !.generated = TRUE,
                                  !.faulted = @ \/ ~putOk]
            /\ pc' = "apply"
            /\ faults' = faults + Cost(putOk)
            /\ UNCHANGED planned
       \/ \E e \in (IF ctxDone THEN {ErrCanceled} ELSE {})
                       \cup (IF faults < MaxFaults /\ (~ctxDone \/ loc.inFlight)
                             THEN {ErrProvider} ELSE {}) :
          \E upOk \in OkSet(IF e = ErrProvider THEN 1 ELSE 0) :
            /\ planned' = IF upOk
                          THEN UpsertPlannedUpdate(planned, loc.hash, loc.targetDocFile,
                                                   loc.targetSection, "inferred", "failed", e)
                          ELSE planned
            /\ loc' = [Failed(loc, e) EXCEPT !.generated = TRUE]
            /\ pc' = "fail"
            /\ faults' = faults + (IF e = ErrProvider THEN 1 ELSE 0) + Cost(upOk)
            /\ UNCHANGED cache
    /\ UNCHANGED <<lockVars, sideVars, rows, mappings, events, gitVars, files, cfg, run, ret, hist, ctxDone>>

\* a comparison that never finds the document unchanged
NeverUnchanged(updated, docRaw) == FALSE
\* line 229: the updated document equals the one read, outer white space aside
Unchanged(updated, docRaw) == TrimSpace(updated) = TrimSpace(docRaw)

\* a call whose error is looked at: the processing goes on only if it succeeded
DiscardedIfOk(ok) == ok
\* `_ = ...`: the error of a best-effort call is dropped and the processing
\* goes on whether the call succeeded or not
Discarded(ok) == TRUE

\* a best-effort write of a planned update: its failure is ignored
TryUpsert(ok, status, reason) ==
    IF ok
    THEN UpsertPlannedUpdate(planned, loc.hash, loc.targetDocFile, loc.targetSection,
                             "inferred", status, reason)
    ELSE planned

\* lines 215-248: the text is validated and spliced into the document; the
\* result is compared with the document and, outside dry-run, written
Apply ==
    /\ pc = "apply"
    /\ LET invalid == validateGeneratedSection(loc.newSection)
           replaced == ReplaceSection(loc.docRaw, loc.targetSection, loc.newSection)
           updated == NormalizeLineEndings(replaced, DetectLineEnding(loc.docRaw))
       IN  \E upOk \in OkSet(0) :
             IF invalid # ""
             THEN /\ planned' = TryUpsert(upOk, "failed", invalid)
                  /\ loc' = [loc EXCEPT !.err = invalid, !.status = "failed",
                                        !.faulted = @ \/ ~upOk]
                  /\ pc' = "fail"
                  /\ faults' = faults + Cost(upOk)
                  /\ UNCHANGED files
             ELSE IF Unchanged(updated, loc.docRaw)
             THEN /\ planned' = TryUpsert(upOk, "unchanged", "no document delta")
                  /\ loc' = [loc EXCEPT !.updated = updated, !.faulted = @ \/ ~upOk]
                  /\ pc' = "mark_skipped"
                  /\ faults' = faults + Cost(upOk)
                  /\ UNCHANGED files
             ELSE IF DryRunTaken
             THEN /\ planned' = TryUpsert(upOk, "applied", "dry-run")
                  /\ loc' = [loc EXCEPT !.updated = updated, !.delta = TRUE,
                                        !.faulted = @ \/ ~upOk]
                  /\ pc' = "mark_dry"
                  /\ faults' = faults + Cost(upOk)
                  /\ UNCHANGED files
             ELSE \E writeOk \in OkSet(Cost(upOk)) :
                    IF writeOk
                    THEN /\ upOk
                         /\ files' = [files EXCEPT ![loc.targetDocFile] = updated]
                         /\ loc' = [loc EXCEPT !.updated = updated, !.delta = TRUE,
                                               !.wrote = TRUE]
                         /\ pc' = IF cfg.Git.CommitDocUpdates THEN "stage" ELSE "mark_success"
                         /\ UNCHANGED <<planned, faults>>
                    ELSE /\ planned' = TryUpsert(upOk, "failed", ErrWrite)
                         /\ loc' = [Failed(loc, ErrWrite) EXCEPT !.updated = updated,
                                                                !.delta = TRUE]
                         /\ pc' = "fail"
                         /\ faults' = faults + 1 + Cost(upOk)
                         /\ UNCHANGED files
    /\ UNCHANGED <<lockVars, sideVars, rows, cache, mappings, events, gitVars, cfg, run, ret, hist, ctxDone>>

\* a write of a status that ends the processing unless it fails
MarkStatus(at, status, filesChanged, next) ==
    /\ pc = at
    /\ \E ok \in OkSet(0) :
         /\ IF ok
            THEN /\ \E now \in Nows(rows) :
                       rows' = MarkCommitProcessed(rows, loc.hash, status, "", loc.docCommitHash,
                                                   filesChanged, now)
                 /\ loc' = [loc EXCEPT !.writes = Append(@, status),
                                       !.status = IF next = "tally" THEN status ELSE @]
                 /\ pc' = next
            ELSE /\ loc' = Failed(loc, ErrStore)
                 /\ pc' = "fail"
                 /\ UNCHANGED rows
         /\ faults' = faults + Cost(ok)
    /\ UNCHANGED <<lockVars, sideVars, planned, cache, mappings, events, gitVars, files, cfg, run, ret,
                  hist, ctxDone>>

\* lines 231-234
MarkSkipped == MarkStatus("mark_skipped", "skipped", <<>>, "tally")
\* lines 239-242
MarkDry == MarkStatus("mark_dry", "success", <<loc.targetDocFile>>, "tally")
\* lines 263-265
MarkSuccess == MarkStatus("mark_success", "success", <<loc.targetDocFile>>, "store_mapping")

\* lines 250-261: the document is staged and committed, or amended into HEAD
Stage ==
    /\ pc = "stage"
    /\ \E ok \in OkSet(0) :
       LET called == [loc EXCEPT !.amendCalls = @ + (IF AmendTaken THEN 1 ELSE 0),
                                 !.commitCalls = @ + (IF AmendTaken THEN 0 ELSE 1)]
       IN
         /\ IF ok
            THEN LET after == IF AmendTaken
                              THEN StageAndAmend(<<loc.targetDocFile>>)
                              ELSE StageAndCommit(<<loc.targetDocFile>>)
                 IN  /\ commits' = after.commits
                     /\ head' = after.head
                     /\ loc' = [called EXCEPT !.docCommitHash = after.head, !.staged = TRUE,
                                              !.amended = AmendTaken]
                     /\ pc' = "mark_success"
            ELSE /\ loc' = Failed(called, ErrGit)
                 /\ pc' = "fail"
                 /\ UNCHANGED gitVars
         /\ faults' = faults + Cost(ok)
    /\ UNCHANGED <<lockVars, sideVars, storeVars, files, cfg, run, ret, hist, ctxDone>>

\* lines 267-269
StoreMappingStep ==
    /\ pc = "store_mapping"
    /\ \E ok \in OkSet(0) :
         /\ IF ok
            THEN /\ mappings' = StoreMapping(mappings, loc.hash, loc.targetDocFile,
                                             loc.targetSection)
                 /\ pc' = "mark_applied"
                 /\ UNCHANGED loc
            ELSE /\ loc' = Failed(loc, ErrMapping)
                 /\ pc' = "fail"
                 /\ UNCHANGED mappings
         /\ faults' = faults + Cost(ok)
    /\ UNCHANGED <<lockVars, sideVars, rows, planned, cache, events, gitVars, files, cfg, run, ret, hist,
                  ctxDone>>

\* lines 271-273
MarkApplied ==
    /\ pc = "mark_applied"
    /\ \E upOk \in OkSet(0) :
         /\ planned' = TryUpsert(upOk, "applied", "")
         /\ loc' = [loc EXCEPT !.status = IF Discarded(upOk) THEN "success" ELSE "failed",
                               !.faulted = @ \/ ~upOk]
         /\ pc' = IF Discarded(upOk) THEN "tally" ELSE "fail"
         /\ faults' = faults + Cost(upOk)
    /\ UNCHANGED <<lockVars, sideVars, rows, cache, mappings, events, gitVars, files, cfg, run, ret,
                  hist, ctxDone>>

(***************************************************************************)
(* Updater.UpdateCommitList, the rest of the loop body                     *)
(***************************************************************************)
TargetNow == IF loc.targetDocFile = "" THEN Missing ELSE files[loc.targetDocFile]

\* lines 112-117: the processing returned an error
FailCommit ==
    /\ pc = "fail"
    /\ \E ok \in OkSet(0) :
       \E logOk \in OkSet(Cost(ok)) :
         /\ IF ok
            THEN \E now \in Nows(rows) :
                   rows' = MarkCommitProcessed(rows, loc.hash, "failed", loc.err, 0, <<>>, now)
            ELSE UNCHANGED rows
         /\ faults' = faults + Cost(ok) + Cost(logOk)
         /\ events' = LogRunEvent(events, logOk, loc.hash, "error", "orchestrator",
                                  "commit processing failed")
         /\ run' = Continue([run EXCEPT !.summary = Bump(@, "Failed"),
                                        !.storeFailed = @ \/ ~ok \/ loc.err = ErrStore])
         /\ hist' = Record(loc.hash, "failed", FALSE, TargetNow)
         /\ loc' = [LocInit(loc.hash) EXCEPT
                        !.writes = IF ok THEN Append(loc.writes, "failed") ELSE loc.writes,
                        !.status = "returned"]
    /\ pc' = "loop"
    /\ UNCHANGED <<lockVars, sideVars, planned, cache, mappings, gitVars, files, cfg, ret, ctxDone>>

\* lines 119-126: the processing returned a status
Tally ==
    /\ pc = "tally"
    /\ run' = Continue([run EXCEPT !.summary = Bump(@, TallyField(loc.status))])
    /\ hist' = Record(loc.hash, loc.status, ~loc.faulted, TargetNow)
    /\ loc' = [LocInit(loc.hash) EXCEPT !.writes = loc.writes, !.status = "returned"]
    /\ pc' = "loop"
    /\ UNCHANGED <<lockVars, sideVars, storeVars, gitVars, files, cfg, ret, ctxDone, faults>>

\* lines 129-136: the list is exhausted and the summary returned
Finish ==
    /\ pc = "loop" /\ run.idx > Len(run.list)
    /\ \E logOk \in OkSet(0) :
         /\ events' = LogRunEvent(events, logOk, 0, "info", "orchestrator", "update loop finished")
         /\ faults' = faults + Cost(logOk)
    /\ ret' = [kind |-> run.kind, summary |-> run.summary, err |-> "",
               c1 |-> IF /\ run.kind = "new"
                         /\ run.head0 \in SeqRange(run.visited)
                         /\ hist[run.head0].status = "success"
                      THEN run.head0 ELSE 0]
    /\ pc' = "idle"
    /\ UNCHANGED <<lockVars, sideVars, rows, planned, cache, mappings, gitVars, files, cfg, run, loc,
                  hist, ctxDone>>

\* the caller's context is cancelled while a commit's generation is under way
Cancel ==
    /\ pc = "generate" /\ ~ctxDone
    /\ ctxDone' = TRUE
    /\ loc' = [loc EXCEPT !.inFlight = TRUE]
    /\ UNCHANGED <<lockVars, sideVars, storeVars, gitVars, files, cfg, pc, run, ret, hist,
                  faults>>

\* the process dies in the middle of a commit; nothing is returned
Crash ==
    /\ pc \notin {"idle", "loop"}
    /\ faults < MaxFaults
    /\ faults' = faults + 1
    /\ hist' = Record(loc.hash, "crashed", FALSE, TargetNow)
    /\ ret' = [RetNone EXCEPT !.kind = "crashed"]
    /\ pc' = "idle"
    /\ loc' = LocInit(0)
    /\ UNCHANGED <<lockVars, sideVars, storeVars, gitVars, files, cfg, run, ctxDone>>

(***************************************************************************)
(* The run lock (internal/runlock): .git-doc/run.lock                      *)
(***************************************************************************)
\* the git-doc processes of the model, by PID; they belong to one user
LockProcs == {1, 2}
\* a PID no process has
DeadPids == {3}
\* the PID of a live process of another user, which kill(2) refuses to
\* signal (EPERM)
ForeignPids == {4}

Absent == [exists |-> FALSE, by |-> 0, text |-> "none", pid |-> 0]
\* a lock file created by `by` (0: before the behaviour starts)
LockFileOf(by, text, pid) == [exists |-> TRUE, by |-> by, text |-> text, pid |-> pid]

\* readPID: <<pid, parsed>>; a missing, empty or unparsable file is an error
readPID(f) ==
    IF f.exists /\ f.text = "pid" THEN <<f.pid, TRUE>> ELSE <<0, FALSE>>

\* syscall.Kill(pid, 0)
Kill0(pid) ==
    IF pid \in LockProcs THEN "nil"
    ELSE IF pid \in ForeignPids THEN "EPERM"
    ELSE "ESRCH"
\* processAlive
processAlive(pid) == pid > 0 /\ Kill0(pid) = "nil"

\* the process the file names is alive
NamesLiveProcess(f) ==
    f.exists /\ f.text = "pid" /\ f.pid \in LockProcs \cup ForeignPids

LkOut == [pc |-> "out", start |-> Absent, alone |-> TRUE]

\* a step of process p: the processes in the middle of a call are no longer
\* alone
LkStep(p, mine) ==
    [q \in LockProcs |->
        IF q = p THEN mine
        ELSE IF lk[q].pc \in {"out", "held"} THEN lk[q]
        ELSE [lk[q] EXCEPT !.alone = FALSE]]

Returns(p, result) ==
    [proc |-> p, result |-> result, start |-> lk[p].start, alone |-> lk[p].alone,
     file |-> lockFile']

\* Acquire, line 32: os.Stat
AcquireStat(p) ==
    /\ lk[p].pc = "out"
    /\ lk' = LkStep(p, [pc |-> IF lockFile.exists THEN "check" ELSE "create",
                        start |-> lockFile, alone |-> TRUE])
    /\ UNCHANGED <<orchVars, sideVars, lockFile, lastCall>>

\* Acquire, lines 33-36: readPID and processAlive
AcquireCheck(p) ==
    /\ lk[p].pc = "check"
    /\ LET got == readPID(lockFile)
       IN  IF got[2] /\ processAlive(got[1])
           THEN /\ UNCHANGED lockFile
                /\ lk' = LkStep(p, LkOut)
                /\ lastCall' = Returns(p, "already_running")
           ELSE /\ lk' = LkStep(p, [lk[p] EXCEPT !.pc = "remove"])
                /\ UNCHANGED <<lockFile, lastCall>>
    /\ UNCHANGED <<orchVars, sideVars>>

\* Acquire, lines 38-40: os.Remove of whatever is at the path
AcquireRemove(p) ==
    /\ lk[p].pc = "remove"
    /\ lockFile' = Absent
    /\ lk' = LkStep(p, [lk[p] EXCEPT !.pc = "create"])
    /\ UNCHANGED <<orchVars, sideVars, lastCall>>

\* Acquire, lines 49-52: os.OpenFile with O_CREATE|O_EXCL
AcquireCreate(p) ==
    /\ lk[p].pc = "create"
    /\ IF lockFile.exists
       THEN /\ UNCHANGED lockFile
            /\ lk' = LkStep(p, LkOut)
            /\ lastCall' = Returns(p, "create lock file")
       ELSE /\ lockFile' = LockFileOf(p, "empty", 0)
            /\ lk' = LkStep(p, [lk[p] EXCEPT !.pc = "write"])
            /\ UNCHANGED lastCall
    /\ UNCHANGED <<orchVars, sideVars>>

\* Acquire, lines 55-59: the payload is written through the open descriptor,
\* into the file at the path if that is still the file created
AcquireWrite(p) ==
    /\ lk[p].pc = "write"
    /\ lockFile' = IF lockFile.exists /\ lockFile.by = p
                   THEN LockFileOf(p, "pid", p) ELSE lockFile
    /\ lk' = LkStep(p, [lk[p] EXCEPT !.pc = "held"])
    /\ lastCall' = Returns(p, "ok")
    /\ UNCHANGED <<orchVars, sideVars>>

\* Lock.Release: os.Remove of whatever is at the path
Release(p) ==
    /\ lk[p].pc = "held"
    /\ lockFile' = Absent
    /\ lk' = LkStep(p, LkOut)
    /\ UNCHANGED <<orchVars, sideVars, lastCall>>

NoCall == [proc |-> 0, result |-> "none", start |-> Absent, alone |-> TRUE, file |-> Absent]

\* no process is in Acquire or holds the lock
LockAtRest ==
    /\ lockFile = Absent
    /\ lk = [p \in LockProcs |-> LkOut]
    /\ lastCall = NoCall

\* the lock file the processes may find: none, an empty one, one that does
\* not parse, one naming no process, a dead one, or a live one they may not
\* signal
InitLock ==
    /\ lockFile \in {Absent, LockFileOf(0, "empty", 0), LockFileOf(0, "garbage", 0),
                     LockFileOf(0, "pid", 0)}
                    \cup {LockFileOf(0, "pid", x) : x \in DeadPids \cup ForeignPids}
    /\ lk = [p \in LockProcs |-> LkOut]
    /\ lastCall = NoCall

(***************************************************************************)
(* The llm_cache table used directly (internal/state): Put and Get         *)
(***************************************************************************)
\* the six fields of a cache key with the prompt not yet hashed: the base
\* key (i = 0) or the base key with its i-th field changed
CacheTuple(i) ==
    [commit_hash |-> IF i = 1 THEN 2 ELSE 1,
     doc_file    |-> IF i = 2 THEN "docs/API.md" ELSE "README.md",
     section_id  |-> IF i = 3 THEN "API" ELSE "Recent Changes",
     provider    |-> IF i = 4 THEN "openai" ELSE "mock",
     model       |-> IF i = 5 THEN "gpt-4o" ELSE "gpt-4o-mini",
     prompt      |-> IF i = 6 THEN "other-prompt" ELSE "hello-prompt"]
CacheTuples == {CacheTuple(i) : i \in 0..6}
CacheTexts == {TNew, THeading}

\* the LLMCacheEntry a caller builds for a tuple; a caller may leave
\* PromptHash empty
CacheEntryOf(t, hashed, text) ==
    [CommitHash |-> t.commit_hash, DocFile |-> t.doc_file, SectionID |-> t.section_id,
     Provider |-> t.provider, Model |-> t.model,
     PromptHash |-> IF hashed THEN hashPrompt(t.prompt) ELSE "", Response |-> text]

\* GetCachedLLMResponse for a tuple
CacheQuery(c, t) ==
    GetCachedLLMResponse(c, t.commit_hash, t.doc_file, t.section_id, t.provider, t.model,
                         t.prompt)

NoTuple == [commit_hash |-> 0]
CacheOpNone ==
    [puts |-> 0, stored |-> {}, last |-> NoTuple, lastText |-> EmptyText,
     overwrote |-> FALSE, query |-> NoTuple, got |-> <<EmptyText, FALSE>>, err |-> ""]

\* Store.PutCachedLLMResponse called with an entry
CachePut ==
    /\ cacheOp.puts < MaxPuts
    /\ \E t \in CacheTuples, hashed \in BOOLEAN, text \in CacheTexts :
         LET entry == CacheEntryOf(t, hashed, text)
         IN  IF entry.PromptHash = ""
             THEN /\ cacheOp' = [cacheOp EXCEPT !.puts = @ + 1,
                                    !.err = "prompt hash is required for llm cache entry"]
                  /\ UNCHANGED cache
             ELSE /\ cache' = PutCachedLLMResponse(cache, entry)
                  /\ cacheOp' = [cacheOp EXCEPT
                         !.puts = @ + 1, !.stored = @ \cup {t}, !.last = t,
                         !.lastText = text, !.err = "",
                         !.overwrote = @ \/ (CacheQuery(cache, t)[2]
                                              /\ CacheQuery(cache, t)[1] # text)]
    /\ UNCHANGED <<rows, planned, mappings, events, commits, head, files, cfg, pc, run, loc,
                  ret, hist, ctxDone, faults, lockVars, rc, moreVars>>

\* Store.GetCachedLLMResponse called with a tuple
CacheGet ==
    /\ \E t \in CacheTuples :
         cacheOp' = [cacheOp EXCEPT !.query = t, !.got = CacheQuery(cache, t)]
    /\ UNCHANGED <<orchVars, lockVars, rc, moreVars>>

(***************************************************************************)
(* The generation clients (internal/llm)                                   *)
(***************************************************************************)
\* an error value: the message, and for an error wrapped by ResilientClient
\* the provider and the attempt it names
NoErr == [wrap |-> <<>>, msg |-> ""]
Err(msg) == [wrap |-> <<>>, msg |-> msg]
\* a wrapping that numbers the attempts from zero
WrapAttemptFromZero(name, attempt, err) == [wrap |-> <<name, attempt - 1>>, msg |-> err.msg]
\* fmt.Errorf("provider %s attempt %d failed: %w", ...)
WrapAttempt(name, attempt, err) == [wrap |-> <<name, attempt>>, msg |-> err.msg]
CtxErr == Err("context canceled")

\* the providers that answer over HTTP and hand the context to the request
HttpKinds == {"openai", "anthropic", "gemini", "groq", "ollama"}
\* the providers that return an error for a response without text
CheckedKinds == {"anthropic", "gemini", "groq", "ollama"}

\* MockClient.Generate: <<text, error>>
MockGenerate(prompt) ==
    IF TrimSpace(prompt) = EmptyText
    THEN <<<<Ln(0, "No changes detected.")>>, NoErr>>
    ELSE <<<<Ln(0, "- Auto-generated update"), EmptyLine>> \o TrimSpace(prompt), NoErr>>

\* what a provider's Generate returns once the request has gone through and
\* the response carries `content` as its text: <<text, error>>
ProviderReply(kind, content, prompt) ==
    IF kind = "mock" THEN MockGenerate(prompt)
    ELSE IF kind = "flaky" THEN <<<<Ln(0, "ok")>>, NoErr>>
    ELSE IF kind \in CheckedKinds /\ TrimSpace(content) = EmptyText
    THEN <<EmptyText, Err("response has no text content")>>
    ELSE <<TrimSpace(content), NoErr>>

\* a provider: its kind, the number of its invocations that fail before one
\* goes through, and the text its response then carries
Provider(kind, failCount, content) ==
    [kind |-> kind, failCount |-> failCount, content |-> content]
Providers ==
    {Provider("mock", 0, TNew)}
        \cup {Provider("flaky", n, TNew) : n \in 0..MaxFail}
        \cup {Provider("openai", n, c) : n \in 0..1, c \in {TNew, TBlank}}
        \cup {Provider("groq", 0, c) : c \in {TNew, TBlank}}
ClientLists == {<<>>} \cup {<<a>> : a \in Providers}
                   \cup {<<a, b>> : a \in Providers, b \in Providers}
Prompts == {<<Ln(0, "prompt")>>, EmptyText}

RcAt(r, pcNew, k, attempt) == [r EXCEPT !.pc = pcNew, !.k = k, !.attempt = attempt]
RcDone(r, text, err) == [r EXCEPT !.pc = "done", !.text = text, !.err = err]

\* NewResilientClient, and the call Generate(ctx, prompt) about to be made on it
NewResilientClient(clients, maxRetries) ==
    [clients |-> clients, maxRetries |-> IF maxRetries < 0 THEN 0 ELSE maxRetries,
     given |-> maxRetries, prompt |-> EmptyText, pc |-> "idle", k |-> 0, attempt |-> 0, lastErr |-> NoErr,
     called |-> [i \in 1..Len(clients) |-> 0], log |-> <<>>, ctxDone |-> FALSE,
     cancelledAt |-> "never", text |-> EmptyText, err |-> NoErr]

\* a loop condition that gives one attempt fewer
InBudgetStrict(attempt, maxRetries) == attempt < maxRetries
\* a loop condition that gives one attempt only
InBudgetOnce(attempt, maxRetries) == attempt <= 0

\* line 68: attempt <= c.maxRetries
InBudget(attempt, maxRetries) == attempt <= maxRetries
\* line 79: attempt < c.maxRetries
WaitsBeforeRetry(attempt, maxRetries) == attempt < maxRetries

\* attempt++ and the loop conditions of lines 67-68: the next attempt of the
\* provider, the first attempt of the next provider, or the return of lastErr
NextAttempt(r) ==
    IF InBudget(r.attempt + 1, r.maxRetries) THEN RcAt(r, "check", r.k, r.attempt + 1)
    ELSE IF r.k < Len(r.clients) THEN RcAt(r, "check", r.k + 1, 0)
    ELSE RcDone(r, EmptyText, r.lastErr)

llmFrame == UNCHANGED <<orchVars, lockVars, cacheOp, moreVars>>

\* ResilientClient.Generate, lines 62-67
GenerateEnter ==
    /\ rc.pc = "idle"
    /\ rc' = IF Len(rc.clients) = 0
             THEN RcDone(rc, EmptyText, Err("no llm clients configured"))
             ELSE RcAt(rc, "check", 1, 0)
    /\ llmFrame

\* lines 69-73: ctx.Err() is looked at and the provider invoked
AttemptCheck ==
    /\ rc.pc = "check"
    /\ rc' = IF rc.ctxDone THEN RcDone(rc, EmptyText, CtxErr)
             ELSE [rc EXCEPT !.pc = "call", !.called[rc.k] = @ + 1,
                             !.log = Append(@, [k |-> rc.k, failed |-> FALSE,
                                                cancelled |-> FALSE])]
    /\ llmFrame

\* lines 73-79: the provider returns.  An invocation fails while the
\* provider's failures last; a provider that hands the context to its request
\* may fail when the context is cancelled under way
ProviderReturns ==
    /\ rc.pc = "call"
    /\ LET prov == rc.clients[rc.k]
           name == prov.kind
           reply == ProviderReply(prov.kind, prov.content, rc.prompt)
           outcomes ==
               (IF rc.called[rc.k] <= prov.failCount
                THEN {<<EmptyText, Err("transient failure")>>} ELSE {reply})
               \cup (IF rc.ctxDone /\ prov.kind \in HttpKinds
                     THEN {<<EmptyText, CtxErr>>} ELSE {})
       IN  \E out \in outcomes :
             IF out[2] = NoErr
             THEN rc' = RcDone(rc, out[1], NoErr)
             ELSE LET noted == [rc EXCEPT
                                  !.lastErr = WrapAttempt(name, rc.attempt + 1, out[2]),
                                  !.log[Len(rc.log)].failed = TRUE,
                                  !.log[Len(rc.log)].cancelled = rc.ctxDone]
                  IN  rc' = IF WaitsBeforeRetry(rc.attempt, rc.maxRetries)
                            THEN [noted EXCEPT !.pc = "backoff"]
                            ELSE NextAttempt(noted)
    /\ llmFrame

\* lines 80-85: the wait before the next attempt ends with the timer, or with
\* ctx.Done() once the context is cancelled
Backoff ==
    /\ rc.pc = "backoff"
    /\ \/ rc' = NextAttempt(rc)
       \/ /\ rc.ctxDone
          /\ rc' = RcDone(rc, EmptyText, CtxErr)
    /\ llmFrame

\* the caller cancels the context
CancelCtx ==
    /\ rc.pc # "done" /\ ~rc.ctxDone
    /\ rc' = [rc EXCEPT !.ctxDone = TRUE, !.cancelledAt = rc.pc]
    /\ llmFrame

\* the orchestrator before its first run, in the first of the repositories
OrchestratorAtRest ==
    /\ InitOrchestrator
    /\ Len(commits) = 1 /\ ~cfg.Git.CommitDocUpdates

(***************************************************************************)
(* The processed_commits table used directly (internal/state)              *)
(***************************************************************************)
\* the commit identifiers and the values the callers of the model pass
StoreHashes == {1, 2, 3}
StoreVals ==
    {[error |-> "boom", docCommit |-> 0, files |-> <<>>],
     [error |-> "", docCommit |-> 9, files |-> <<"README.md">>]}
\* a status the CHECK constraint of the table refuses
BogusStatus == "done"

\* a count that leaves the rows in_progress out of the total
GetStatusCountsOfSettled(r) ==
    LET n(st) == Cardinality(WithStatus(r, {st}))
    IN  [Pending |-> n("pending"), InProgress |-> n("in_progress"), Success |-> n("success"),
         Failed |-> n("failed"), Skipped |-> n("skipped"),
         Total |-> n("pending") + n("success") + n("failed") + n("skipped")]

\* Store.GetStatusCounts
GetStatusCounts(r) ==
    LET n(st) == Cardinality(WithStatus(r, {st}))
    IN  [Pending |-> n("pending"), InProgress |-> n("in_progress"), Success |-> n("success"),
         Failed |-> n("failed"), Skipped |-> n("skipped"),
         Total |-> n("pending") + n("in_progress") + n("success") + n("failed")
                      + n("skipped")]

StoreOpNone == [calls |-> 0, seq |-> EmptyFn, last |-> EmptyFn, err |-> ""]

\* Store.MarkCommitProcessed called with a commit, a status and values
StoreMark ==
    /\ storeOp.calls < MaxMarks
    /\ \E h \in StoreHashes, status \in StatusSet \cup {BogusStatus}, v \in StoreVals :
         IF status \notin StatusSet
         THEN /\ storeOp' = [storeOp EXCEPT !.calls = @ + 1,
                                !.err = "mark commit processed: CHECK constraint failed"]
              /\ UNCHANGED rows
         ELSE \E now \in Nows(rows) :
                /\ rows' = MarkCommitProcessed(rows, h, status, v.error, v.docCommit, v.files,
                                               now)
                /\ storeOp' =
                     [calls |-> storeOp.calls + 1,
                      seq |-> [x \in DOMAIN storeOp.seq \cup {h} |->
                                  IF x = h THEN storeOp.calls + 1 ELSE storeOp.seq[x]],
                      last |-> [x \in DOMAIN storeOp.last \cup {h} |->
                                  IF x = h THEN [status |-> status, v |-> v]
                                  ELSE storeOp.last[x]],
                      err |-> ""]
    /\ UNCHANGED <<planned, cache, mappings, events, commits, head, files, cfg, pc, run, loc,
                  ret, hist, ctxDone, faults, lockVars, rc, cacheOp, hooks, upd, tgt, db>>

(***************************************************************************)
(* The hook manager (internal/hooks/manager.go)                            *)
(***************************************************************************)
supportedHooks == <<"post-commit", "post-merge", "post-rewrite">>
HookNames == {supportedHooks[i] : i \in DOMAIN supportedHooks}
hookScript == "#!/bin/sh\ngit-doc update --from-hook > /dev/null 2>&1 &\n"

\* the contents a file of .git/hooks has in the model; NoHook: no such file
NoHook == "<no file>"
UserHook == "#!/bin/sh\nmake lint\n"
UserHookCallingGitDoc == "#!/bin/sh\nmake lint\ngit-doc update\n"
OldBackup == "#!/bin/sh\nmake old\n"
\* strings.Contains(content, "git-doc update") on these contents
ContainsGitDocUpdate(content) == content \in {hookScript, UserHookCallingGitDoc}

\* Manager.backupHookIfNeeded: the backup file after the call
backupHookIfNeeded(file, bak) ==
    IF file = NoHook THEN bak
    ELSE IF ContainsGitDocUpdate(file) THEN bak
    ELSE IF bak # NoHook THEN bak
    ELSE file

\* one hook of Manager.Disable: <<hook file, backup file>> after the call
DisableHook(file, bak) ==
    IF bak # NoHook THEN <<bak, NoHook>>
    ELSE IF file = NoHook THEN <<file, bak>>
    ELSE IF ContainsGitDocUpdate(file) THEN <<NoHook, bak>>
    ELSE <<file, bak>>

ErrNoHooksDir == "git hooks directory not found"
HooksNone ==
    [dir |-> TRUE, file |-> [h \in HookNames |-> NoHook], bak |-> [h \in HookNames |-> NoHook],
     orig |-> [h \in HookNames |-> NoHook], origBak |-> [h \in HookNames |-> NoHook],
     log |-> <<>>, err |-> ""]

\* the hooks directory of a repository before git-doc is first enabled
InitHooks ==
    \E d \in BOOLEAN :
    \E f \in [HookNames -> {NoHook, UserHook, UserHookCallingGitDoc}] :
    \E b \in [HookNames -> {NoHook, OldBackup}] :
        /\ d = FALSE => (\A h \in HookNames : f[h] = NoHook /\ b[h] = NoHook)
        /\ \A h \in HookNames : h # "post-commit" => b[h] = NoHook
        /\ hooks = [dir |-> d, file |-> f, bak |-> b, orig |-> f, origBak |-> b,
                    log |-> <<>>, err |-> ""]

hooksFrame == UNCHANGED <<orchVars, lockVars, rc, cacheOp, storeOp, upd, tgt, db>>

\* Manager.Enable
Enable ==
    /\ Len(hooks.log) < MaxHookCalls
    /\ IF ~hooks.dir
       THEN hooks' = [hooks EXCEPT !.log = Append(@, "Enable"), !.err = ErrNoHooksDir]
       ELSE hooks' = [hooks EXCEPT
                        !.bak = [h \in HookNames |->
                                    backupHookIfNeeded(hooks.file[h], hooks.bak[h])],
                        !.file = [h \in HookNames |-> hookScript],
                        !.log = Append(@, "Enable"), !.err = ""]
    /\ hooksFrame

\* Manager.Disable
Disable ==
    /\ Len(hooks.log) < MaxHookCalls
    /\ IF ~hooks.dir
       THEN hooks' = [hooks EXCEPT !.log = Append(@, "Disable"), !.err = ErrNoHooksDir]
       ELSE hooks' = [hooks EXCEPT
                        !.file = [h \in HookNames |->
                                    DisableHook(hooks.file[h], hooks.bak[h])[1]],
                        !.bak = [h \in HookNames |->
                                    DisableHook(hooks.file[h], hooks.bak[h])[2]],
                        !.log = Append(@, "Disable"), !.err = ""]
    /\ hooksFrame

(***************************************************************************)
(* The update command (internal/cli/root.go, newUpdateCmd) run by process  *)
(* 2 while process 1, or a process of another user, may hold the run lock  *)
(***************************************************************************)
UpdProc == 2
OtherProc == 1
UpdNone == [pc |-> "out", fromHook |-> FALSE, result |-> "none", start |-> Absent]
ErrBuildApp == "load config"

\* runlock.IsAlreadyRunningError
IsAlreadyRunningError(result) == result = "already_running"

\* root.go, lines 204-206: the hook invocation turns a held lock into success
HookRefusalSwallowed(fromHook, result) == fromHook /\ IsAlreadyRunningError(result)

updFrame == UNCHANGED <<orchVars, rc, cacheOp, storeOp, hooks, tgt, db>>

\* root.go, lines 197-200: the command starts and builds the application
CmdStart ==
    /\ upd.pc = "out"
    /\ \E fromHook \in BOOLEAN, built \in BOOLEAN :
         upd' = [pc |-> IF built THEN "acquire" ELSE "done", fromHook |-> fromHook,
                 result |-> IF built THEN "none" ELSE ErrBuildApp, start |-> lockFile]
    /\ UNCHANGED lockVars
    /\ updFrame

\* root.go, line 202: runlock.Acquire, step by step
CmdAcquire ==
    /\ upd.pc = "acquire" /\ lastCall.proc # UpdProc
    /\ \/ AcquireStat(UpdProc)
       \/ AcquireCheck(UpdProc)
       \/ AcquireRemove(UpdProc)
       \/ AcquireCreate(UpdProc)
       \/ AcquireWrite(UpdProc)

\* root.go, lines 203-208: Acquire returned an error
CmdRefused ==
    /\ upd.pc = "acquire" /\ lastCall.proc = UpdProc /\ lastCall.result # "ok"
    /\ upd' = [upd EXCEPT !.pc = "done",
                 !.result = IF HookRefusalSwallowed(upd.fromHook, lastCall.result)
                            THEN "nil" ELSE lastCall.result]
    /\ UNCHANGED lockVars
    /\ updFrame

\* root.go, line 209: the lock is held and its release deferred
CmdLocked ==
    /\ upd.pc = "acquire" /\ lastCall.proc = UpdProc /\ lastCall.result = "ok"
    /\ upd' = [upd EXCEPT !.pc = "run"]
    /\ UNCHANGED lockVars
    /\ updFrame

\* root.go, lines 211-216: the Updater is called once
CmdEnter ==
    /\ upd.pc = "run" /\ run.n = 0
    /\ \/ UpdateNewCommits
       \/ UpdateRangeCommits

\* the Updater call of the command proceeds
CmdRun ==
    /\ upd.pc = "run" /\ run.n = 1
    /\ \/ MarkPending
       \/ MarkInProgress
       \/ Plan
       \/ CacheLookup
       \/ Generate
       \/ Apply
       \/ MarkSkipped
       \/ MarkDry
       \/ Stage
       \/ MarkSuccess
       \/ StoreMappingStep
       \/ MarkApplied
       \/ FailCommit
       \/ Tally
       \/ Finish
       \/ Cancel
       \/ Crash

\* root.go, lines 217-222 and the deferred lock.Release; a process that died
\* in the Updater releases nothing
CmdReturn ==
    /\ upd.pc = "run" /\ run.n = 1 /\ pc = "idle"
    /\ IF ret.kind = "crashed"
       THEN /\ upd' = [upd EXCEPT !.pc = "done", !.result = "crashed"]
            /\ UNCHANGED lockVars
       ELSE /\ upd' = [upd EXCEPT !.pc = "done",
                         !.result = IF ret.err # "" THEN ret.err ELSE "nil"]
            /\ lockFile' = Absent
            /\ lk' = LkStep(UpdProc, LkOut)
            /\ UNCHANGED lastCall
    /\ updFrame

\* the other process goes on: it writes its PID into the file it created, or
\* releases the lock it holds (the result of Acquire is local to its caller,
\* so the command's branch on it comes first)
OtherWrites ==
    /\ ~(upd.pc = "acquire" /\ lastCall.proc = UpdProc)
    /\ AcquireWrite(OtherProc)
OtherReleases ==
    /\ lk[OtherProc].pc = "held"
    /\ Release(OtherProc)

\* the run lock when the command starts: free, held by process 1, created by
\* process 1 that has yet to write its PID, or held by a live process of
\* another user
InitUpdLock ==
    \/ LockAtRest
    \/ /\ lockFile = LockFileOf(OtherProc, "pid", OtherProc)
       /\ lk = [p \in LockProcs |-> IF p = OtherProc THEN [LkOut EXCEPT !.pc = "held"]
                                    ELSE LkOut]
       /\ lastCall = NoCall
    \/ /\ lockFile = LockFileOf(OtherProc, "empty", 0)
       /\ lk = [p \in LockProcs |-> IF p = OtherProc THEN [LkOut EXCEPT !.pc = "write"]
                                    ELSE LkOut]
       /\ lastCall = NoCall
    \/ /\ \E x \in ForeignPids : lockFile = LockFileOf(0, "pid", x)
       /\ lk = [p \in LockProcs |-> LkOut]
       /\ lastCall = NoCall

(***************************************************************************)
(* Updater.resolveTarget called on its own, under any configuration        *)
(***************************************************************************)
\* the mappings a configuration may declare and the paths a commit may change
TargetMappings ==
    {[CodePattern |-> "api/*", DocFile |-> "docs/API.md", Section |-> "API"],
     [CodePattern |-> "*.go", DocFile |-> "docs/API.md", Section |-> "Go"],
     [CodePattern |-> "src/*.go", DocFile |-> "README.md", Section |-> "Sources"],
     [CodePattern |-> "*", DocFile |-> "README.md", Section |-> "Everything"]}
TargetPaths == {"src/a.go", "src/.go", "api/x.go", "README.md"}
TargetDocFiles == {<<>>, <<"README.md">>, <<"docs/API.md", "README.md">>}
SeqsUpTo(S, n) == UNION {[1..k -> S] : k \in 0..n}

TgtNone == [called |-> FALSE, changedFiles |-> <<>>, docFile |-> "", section |-> ""]

\* Updater.resolveTarget called with the changed files of a commit
Resolve ==
    /\ \E changedFiles \in SeqsUpTo(TargetPaths, MaxChanged) :
         tgt' = [called |-> TRUE, changedFiles |-> changedFiles,
                 docFile |-> resolveTarget(changedFiles)[1],
                 section |-> resolveTarget(changedFiles)[2]]
    /\ UNCHANGED <<orchVars, lockVars, rc, cacheOp, storeOp, hooks, upd, db>>

(***************************************************************************)
(* Opening the state database (internal/state: New, migrate)               *)
(***************************************************************************)
\* the commits a database found on disk may hold rows of
DbHashes == 1..MaxLegacyRows

\* the status lists a processed_commits table found on disk may have been
\* created with: the present one and two older ones
CurrentChecks == StatusSet
LegacyChecks == {{"success", "failed", "skipped"}, {"pending", "success", "failed", "skipped"}}

\* the rows such a table may hold, all columns but the key
DbRowVals ==
    {[processed_at |-> 1, status |-> "success", error |-> NullText, doc_commit_hash |-> 9,
      doc_files_changed |-> "[\"README.md\"]", metadata |-> NullText],
     [processed_at |-> 2, status |-> "failed", error |-> "boom", doc_commit_hash |-> NullHash,
      doc_files_changed |-> NullText, metadata |-> "{}"],
     [processed_at |-> 2, status |-> "skipped", error |-> NullText, doc_commit_hash |-> NullHash,
      doc_files_changed |-> NullText, metadata |-> NullText]}
DbRowSets == UNION {[D -> DbRowVals] : D \in SUBSET DbHashes}

NoTables == [x \in {} |-> [checks |-> {}, rows |-> EmptyFn]]
Table(checks, r) == [checks |-> checks, rows |-> r]
OneTable(name, t) == [x \in {name} |-> t]
WithTable(ts, name, t) == [x \in DOMAIN ts \cup {name} |-> IF x = name THEN t ELSE ts[x]]
WithoutTable(ts, name) == [x \in DOMAIN ts \ {name} |-> ts[x]]

\* a copy that leaves processed_at to the column's default
InsertSelectRestamped(r) ==
    [h \in DOMAIN r |->
        [processed_at |-> 0, status |-> r[h].status, error |-> r[h].error,
         doc_commit_hash |-> r[h].doc_commit_hash,
         doc_files_changed |-> r[h].doc_files_changed, metadata |-> r[h].metadata]]

\* INSERT INTO processed_commits_new (...) SELECT ... FROM processed_commits
InsertSelect(r) ==
    [h \in DOMAIN r |->
        [processed_at |-> r[h].processed_at, status |-> r[h].status, error |-> r[h].error,
         doc_commit_hash |-> r[h].doc_commit_hash,
         doc_files_changed |-> r[h].doc_files_changed, metadata |-> r[h].metadata]]

\* the sql of the table names both 'pending' and 'in_progress'
HasCurrentLayout(t) == "pending" \in t.checks /\ "in_progress" \in t.checks

\* a rollback that keeps what the transaction did
RollbackKeeping(d) == d.tables

\* tx.Rollback: the tables are those of the transaction's start
Rollback(d) == d.saved

\* a database opened, at its present layout and empty
DbOpen ==
    [pc |-> "open", tables |-> OneTable("processed_commits", Table(CurrentChecks, EmptyFn)),
     saved |-> NoTables, before |-> NoTables, err |-> "", migrated |-> FALSE]

dbFrame == UNCHANGED <<orchVars, lockVars, rc, cacheOp, storeOp, hooks, upd, tgt>>

\* a database file as found on disk: none yet, one of an older layout, or
\* one of the present layout
InitDb ==
    \E ts \in {NoTables}
              \cup {OneTable("processed_commits", Table(c, r)) :
                        c \in LegacyChecks \cup {CurrentChecks}, r \in DbRowSets} :
        db = [pc |-> "new", tables |-> ts, saved |-> NoTables, before |-> ts,
              err |-> "", migrated |-> FALSE]

\* New up to the call of migrate: MkdirAll and sql.Open
New ==
    /\ db.pc = "new"
    /\ \E e \in {"", "create state dir", "open sqlite"} :
        db' = IF e = "" THEN [db EXCEPT !.pc = "migrate"]
              ELSE [db EXCEPT !.pc = "failed", !.err = e]
    /\ dbFrame

\* migrate: the five CREATE TABLE IF NOT EXISTS statements, each executed on
\* its own; processed_commits is the first
migrate ==
    /\ db.pc = "migrate"
    /\ \E failAt \in 0..5 :
        LET made == IF failAt # 1 /\ "processed_commits" \notin DOMAIN db.tables
                    THEN WithTable(db.tables, "processed_commits", Table(CurrentChecks, EmptyFn))
                    ELSE db.tables
        IN  db' = IF failAt = 0
                  THEN [db EXCEPT !.pc = "schema", !.tables = made]
                  ELSE [db EXCEPT !.pc = "failed", !.tables = made, !.err = "migration failed"]
    /\ dbFrame

\* ensureProcessedCommitSchema up to Begin: the table's sql is read and
\* searched
SchemaRead ==
    /\ db.pc = "schema"
    /\ \E ok \in BOOLEAN :
        db' = IF ~ok THEN [db EXCEPT !.pc = "failed", !.err = "scan"]
              ELSE IF HasCurrentLayout(db.tables["processed_commits"])
                   THEN [db EXCEPT !.pc = "open"]
                   ELSE [db EXCEPT !.pc = "begin"]
    /\ dbFrame

\* s.db.Begin
Begin ==
    /\ db.pc = "begin"
    /\ \E ok \in BOOLEAN :
        db' = IF ok THEN [db EXCEPT !.pc = "create_new", !.saved = db.tables]
              ELSE [db EXCEPT !.pc = "failed", !.err = "begin"]
    /\ dbFrame

\* the outcome of a statement of the transaction: on an error the function
\* returns it and the deferred Rollback runs
TxStep(ok, next, ts, e) ==
    db' = IF ok THEN [db EXCEPT !.pc = next, !.tables = ts]
          ELSE [db EXCEPT !.pc = "rollback", !.err = e]

\* CREATE TABLE processed_commits_new, with the five statuses
TxCreateNew ==
    /\ db.pc = "create_new"
    /\ \E ok \in BOOLEAN :
        TxStep(ok /\ "processed_commits_new" \notin DOMAIN db.tables, "insert",
               WithTable(db.tables, "processed_commits_new", Table(CurrentChecks, EmptyFn)),
               "create")
    /\ dbFrame

\* INSERT INTO processed_commits_new ... SELECT ... FROM processed_commits
TxInsertSelect ==
    /\ db.pc = "insert"
    /\ \E ok \in BOOLEAN :
        LET copied == InsertSelect(db.tables["processed_commits"].rows)
        IN  TxStep(ok /\ \A h \in DOMAIN copied : copied[h].status \in CurrentChecks, "drop",
                   WithTable(db.tables, "processed_commits_new", Table(CurrentChecks, copied)),
                   "insert")
    /\ dbFrame

\* DROP TABLE processed_commits
TxDrop ==
    /\ db.pc = "drop"
    /\ \E ok \in BOOLEAN :
        TxStep(ok, "rename", WithoutTable(db.tables, "processed_commits"), "drop")
    /\ dbFrame

\* ALTER TABLE processed_commits_new RENAME TO processed_commits
TxRename ==
    /\ db.pc = "rename"
    /\ \E ok \in BOOLEAN :
        TxStep(ok, "commit",
               WithTable(WithoutTable(db.tables, "processed_commits_new"),
                         "processed_commits", db.tables["processed_commits_new"]),
               "rename")
    /\ dbFrame

\* tx.Commit
TxCommit ==
    /\ db.pc = "commit"
    /\ \E ok \in BOOLEAN :
        db' = IF ok THEN [db EXCEPT !.pc = "open", !.migrated = TRUE]
              ELSE [db EXCEPT !.pc = "rollback", !.err = "commit"]
    /\ dbFrame

\* the deferred tx.Rollback of a transaction that did not commit, and the
\* return of the error through migrate and New
TxRollback ==
    /\ db.pc = "rollback"
    /\ db' = [db EXCEPT !.pc = "failed", !.tables = Rollback(db)]
    /\ dbFrame

\* no direct store call, no hook manager call, no update command and no
\* target resolution is under way
MoreAtRest ==
    /\ storeOp = StoreOpNone
    /\ hooks = HooksNone
    /\ upd = UpdNone
    /\ tgt = TgtNone
    /\ db = DbOpen

\* no ResilientClient call and no direct cache operation is under way
SideAtRest ==
    /\ rc = NewResilientClient(<<>>, 0)
    /\ cacheOp = CacheOpNone
    /\ MoreAtRest

InitLockSpec == OrchestratorAtRest /\ InitLock /\ SideAtRest

\* an empty store, about to be used directly
InitCacheSpec == OrchestratorAtRest /\ LockAtRest /\ SideAtRest

\* a ResilientClient just built over some providers, and the prompt of the
\* Generate call about to be made
InitLLMSpec ==
    /\ OrchestratorAtRest /\ LockAtRest
    /\ cacheOp = CacheOpNone /\ MoreAtRest
    /\ \E clients \in ClientLists, maxRetries \in (-1)..MaxRetriesGiven, prompt \in Prompts :
          rc = [NewResilientClient(clients, maxRetries) EXCEPT !.prompt = prompt]

Init == InitOrchestrator /\ LockAtRest /\ SideAtRest

Next ==
    \/ UpdateNewCommits
    \/ UpdateRangeCommits
    \/ UpdateCommitList
    \/ MarkPending
    \/ MarkInProgress
    \/ Plan
    \/ CacheLookup
    \/ Generate
    \/ Apply
    \/ MarkSkipped
    \/ MarkDry
    \/ Stage
    \/ MarkSuccess
    \/ StoreMappingStep
    \/ MarkApplied
    \/ FailCommit
    \/ Tally
    \/ Finish
    \/ Cancel
    \/ Crash

Spec == Init /\ [][Next]_vars

\* an empty processed_commits table, about to be used directly
InitStoreSpec == OrchestratorAtRest /\ LockAtRest /\ SideAtRest
NextStore == StoreMark
SpecStore == InitStoreSpec /\ [][NextStore]_vars

\* a database file about to be opened by Store.New
InitMigrateSpec ==
    /\ OrchestratorAtRest /\ LockAtRest
    /\ rc = NewResilientClient(<<>>, 0) /\ cacheOp = CacheOpNone
    /\ storeOp = StoreOpNone /\ hooks = HooksNone /\ upd = UpdNone /\ tgt = TgtNone
    /\ InitDb
NextMigrate ==
    \/ New
    \/ migrate
    \/ SchemaRead
    \/ Begin
    \/ TxCreateNew
    \/ TxInsertSelect
    \/ TxDrop
    \/ TxRename
    \/ TxCommit
    \/ TxRollback
SpecMigrate == InitMigrateSpec /\ [][NextMigrate]_vars

\* a repository whose hooks directory git-doc has not touched yet
InitHooksSpec ==
    /\ OrchestratorAtRest /\ LockAtRest
    /\ rc = NewResilientClient(<<>>, 0) /\ cacheOp = CacheOpNone
    /\ storeOp = StoreOpNone /\ InitHooks /\ upd = UpdNone /\ tgt = TgtNone
    /\ db = DbOpen
NextHooks ==
    \/ Enable
    \/ Disable
SpecHooks == InitHooksSpec /\ [][NextHooks]_vars

\* a repository with one commit to process and the update command about to
\* run
InitUpdateSpec ==
    /\ InitOrchestrator /\ Len(commits) = 1
    /\ InitUpdLock /\ SideAtRest
NextUpdate ==
    \/ CmdStart
    \/ CmdAcquire
    \/ CmdRefused
    \/ CmdLocked
    \/ CmdEnter
    \/ CmdRun
    \/ CmdReturn
    \/ OtherWrites
    \/ OtherReleases
SpecUpdate == InitUpdateSpec /\ [][NextUpdate]_vars

\* an Updater over any configuration of the model, about to resolve a target
InitTargetSpec ==
    /\ rows = EmptyFn /\ planned = EmptyFn /\ cache = EmptyFn
    /\ mappings = {} /\ events = {}
    /\ commits = <<Commit(0, <<"src/a.go">>)>> /\ head = 1
    /\ files = [f \in {"README.md", "docs/API.md"} |-> IF f = "README.md" THEN Doc0 ELSE Missing]
    /\ \E ms \in SeqsUpTo(TargetMappings, MaxMappings), ds \in TargetDocFiles :
         cfg = [Config(FALSE, FALSE) EXCEPT !.Mappings = ms, !.DocFiles = ds]
    /\ pc = "idle" /\ run = RunIdle(0) /\ loc = LocInit(0) /\ ret = RetNone
    /\ hist = EmptyFn /\ ctxDone = FALSE /\ faults = 0
    /\ LockAtRest /\ SideAtRest
NextTarget == Resolve
SpecTarget == InitTargetSpec /\ [][NextTarget]_vars

NextLock ==
    \E p \in LockProcs :
        \/ AcquireStat(p)
        \/ AcquireCheck(p)
        \/ AcquireRemove(p)
        \/ AcquireCreate(p)
        \/ AcquireWrite(p)
        \/ Release(p)

SpecLock == InitLockSpec /\ [][NextLock]_vars

NextCache ==
    \/ CachePut
    \/ CacheGet

SpecCache == InitCacheSpec /\ [][NextCache]_vars

NextLLM ==
    \/ GenerateEnter
    \/ AttemptCheck
    \/ ProviderReturns
    \/ Backoff
    \/ CancelCtx

SpecLLM == InitLLMSpec /\ [][NextLLM]_vars
\* Generate is sequential code: each of its steps is taken once it can be
\* (a provider call returns, the backoff timer fires); the caller's
\* cancellation may or may not come
SpecLLMFair ==
    /\ InitLLMSpec /\ [][NextLLM]_vars
    /\ WF_vars(GenerateEnter) /\ WF_vars(AttemptCheck)
    /\ WF_vars(ProviderReturns) /\ WF_vars(Backoff)

(***************************************************************************)
(* Properties of the update loop                                           *)
(***************************************************************************)
\* UpdateCommitList has returned its summary (it is not a failed setup, a
\* crash, or a run still under way)
Returned == pc = "idle" /\ ret.kind \in {"new", "list"} /\ run.idx > 0

\* C1: the Summary UpdateCommitList returns has Processed = Success + Failed +
\* Skipped and no negative counter, whatever list it was given and whatever
\* failed on the way (store writes, collaborators, cancellation).
C1_SummaryAddsUp ==
    Returned =>
        /\ ret.summary.Processed
             = ret.summary.Success + ret.summary.Failed + ret.summary.Skipped
        /\ \A f \in DOMAIN ret.summary : ret.summary[f] >= 0
\* a summary returned after an injected failure, counting both a failed commit
\* and one that was not
C1_Witness ==
    /\ Returned /\ faults > run.f0
    /\ ret.summary.Failed >= 1
    /\ ret.summary.Success + ret.summary.Skipped >= 1

\* C2: a commit whose processing fails does not end the run: every commit of
\* the list is taken through the pipeline, in order, and UpdateCommitList
\* returns the summary of the whole list with a nil error.
C2_FailureDoesNotEndRun ==
    /\ pc # "idle" =>
         /\ run.visited = SubSeq(run.list, 1, Len(run.visited))
         /\ run.idx = Len(run.visited) + (IF pc = "loop" THEN 1 ELSE 0)
    /\ Returned =>
         /\ ret.err = ""
         /\ run.visited = run.list
         /\ ret.summary.Processed = Len(run.list)
\* a returned run whose first commit failed and whose second commit, a
\* different one, succeeded after it
C2_Witness ==
    /\ Returned /\ Len(run.list) = 2 /\ run.list[1] # run.list[2]
    /\ hist[run.list[1]].status = "failed"
    /\ hist[run.list[2]].status = "success"
    /\ ret.summary.Failed = 1 /\ ret.summary.Success = 1

IsPrefix(a, b) == Len(a) <= Len(b) /\ a = SubSeq(b, 1, Len(a))

\* C3: the statuses written to a commit's row during one processing are
\* pending, then in_progress, then one of success, failed, skipped: nothing
\* is written after the terminal status and no terminal status is written
\* without in_progress before it.
C3_StatusOrder ==
    \E t \in Terminal : IsPrefix(loc.writes, <<"pending", "in_progress", t>>)

\* C6: UpdateNewCommits puts every commit the store holds as pending or
\* in_progress into the list it processes, in the range of the commit source
\* or not; the commit's processing starts at the first step with nothing
\* carried over; and once the run has gone past it, no store write having
\* failed, its row is in a terminal status.
C6_ResumablesReprocessed ==
    run.kind = "new" =>
        \A h \in run.stale :
            /\ h \in SeqRange(run.list)
            /\ (pc = "in_progress" /\ loc.hash = h)
                   => loc = [LocInit(h) EXCEPT !.writes = <<"pending">>]
            /\ (~run.storeFailed /\ \E k \in 1..(run.idx - 1) : run.list[k] = h)
                   => rows[h].status \in Terminal
            /\ (Returned /\ ~run.storeFailed) => rows[h].status \in Terminal
\* an UpdateNewCommits run that found a commit left behind by a dead run and
\* has returned
C6_Witness ==
    /\ Returned /\ run.kind = "new" /\ ~run.storeFailed
    /\ run.stale # {}
    /\ \A h \in run.stale : rows[h].status \in Terminal

\* C7: the list UpdateNewCommits processes is the resumable commits in the
\* store's order followed by the commits of the range in the source's order,
\* each commit once (first occurrence kept); the commits are processed one
\* at a time in the order of the list.
C7_ResumableFirstOnce ==
    run.kind = "new" =>
        LET Fresh(h) == h \notin SeqRange(run.resumable)
        IN  /\ run.list = run.resumable \o SelectSeq(run.range, Fresh)
            /\ \A i, j \in DOMAIN run.list : i # j => run.list[i] # run.list[j]
            /\ IsPrefix(run.visited, run.list)
            /\ pc \notin {"idle", "loop"} => loc.hash = run.list[run.idx]
\* a run whose first commit was both resumable and in the range, with another
\* commit of the range behind it
C7_Witness ==
    /\ run.kind = "new" /\ pc = "loop" /\ Len(run.visited) >= 1
    /\ Len(run.list) = 2
    /\ run.list[1] \in SeqRange(run.resumable) \cap SeqRange(run.range)
    /\ run.list[2] \in SeqRange(run.range)

\* C8: processing again a commit whose previous processing ended success,
\* with the cache and the document as that processing left them, takes the
\* text from the cache, does not write the document, neither commits nor
\* amends, and ends skipped.  (Both processings outside dry-run, and nothing
\* failing in either.)
C8_RerunIsIdempotent ==
    (/\ pc \in {"tally", "fail"}
     /\ loc.hash \in DOMAIN hist
     /\ hist[loc.hash].status = "success" /\ hist[loc.hash].clean
     /\ ~hist[loc.hash].dryRun /\ ~run.dryRun
     /\ loc.docRaw = hist[loc.hash].doc
     /\ ~loc.faulted)
        => /\ pc = "tally" /\ loc.status = "skipped"
           /\ loc.cached /\ ~loc.generated
           /\ ~loc.wrote /\ ~loc.staged

C10_DryRunFrame ==
    [][(run.dryRun /\ pc # "idle") =>
          /\ files' = files /\ commits' = commits /\ head' = head
          /\ ~loc'.wrote /\ ~loc'.staged
          /\ (pc \in {"tally", "fail"} /\ pc' = "loop" /\ loc.delta /\ ~loc.faulted) =>
                /\ pc = "tally" /\ loc.status = "success"
                /\ rows[loc.hash].status = "success"
                /\ run'.summary.Success = run.summary.Success + 1]_vars
\* a dry-run, under a configuration that commits doc updates, that returned a
\* success and left the document and HEAD as they were
C10_Witness ==
    /\ Returned /\ run.dryRun /\ cfg.Git.CommitDocUpdates
    /\ ret.summary.Success >= 1
    /\ files["README.md"] = Doc0 /\ head = run.head0

(***************************************************************************)
(* Properties of the run lock                                              *)
(***************************************************************************)
\* C4: however the Acquire and Release calls of several processes interleave,
\* and whatever lock file they find, at most one process at a time holds a
\* lock that Acquire gave it and that it has not released.
C4_AtMostOneHolder ==
    Cardinality({p \in LockProcs : lk[p].pc = "held"}) <= 1

\* C5: an Acquire call (no other process stepping during it) fails with
\* ErrAlreadyRunning exactly when the lock file exists and names the PID of a
\* live process; in every other case it succeeds and leaves a lock file
\* naming the caller's PID.
C5_AcquireOutcome ==
    (lastCall.result # "none" /\ lastCall.alone) =>
        IF NamesLiveProcess(lastCall.start)
        THEN lastCall.result = "already_running"
        ELSE /\ lastCall.result = "ok"
             /\ lastCall.file = LockFileOf(lastCall.proc, "pid", lastCall.proc)


(***************************************************************************)
(* Properties of the llm_cache table                                       *)
(***************************************************************************)
\* C14: after PutCachedLLMResponse has stored an entry, GetCachedLLMResponse
\* with the same commit, doc file, section, provider, model and prompt hits
\* and returns the text stored last; a query that differs in a field from
\* every stored key misses; and a Put on a key already stored replaces the
\* text and leaves one entry for the key.
C14_CacheRoundTrip ==
    /\ cacheOp.last # NoTuple =>
          CacheQuery(cache, cacheOp.last) = <<cacheOp.lastText, TRUE>>
    /\ \A t \in CacheTuples :
          IF t \in cacheOp.stored
          THEN CacheQuery(cache, t)[2]
          ELSE CacheQuery(cache, t) = <<EmptyText, FALSE>>
    /\ Cardinality(DOMAIN cache) = Cardinality(cacheOp.stored)
\* the base key stored twice with different texts, then read back, its six
\* one-field variants all missing
C14_Witness ==
    /\ cacheOp.puts = 2 /\ cacheOp.overwrote
    /\ cacheOp.stored = {CacheTuple(0)}
    /\ cacheOp.query = CacheTuple(0) /\ cacheOp.got = <<cacheOp.lastText, TRUE>>
    /\ \A i \in 1..6 : ~CacheQuery(cache, CacheTuple(i))[2]

(***************************************************************************)
(* Properties of the generation clients                                    *)
(***************************************************************************)
\* the reply of the provider at position k once a request of it goes through
ReplyAt(k) == ProviderReply(rc.clients[k].kind, rc.clients[k].content, rc.prompt)

\* C15: without cancellation, when the first provider fails exactly N times
\* and then succeeds and maxRetries >= N, ResilientClient.Generate returns
\* that provider's text with a nil error, the provider is invoked exactly N+1
\* times, and no other provider is invoked.
C15_RetriesThenSucceeds ==
    (/\ ~rc.ctxDone /\ Len(rc.clients) >= 1
     /\ rc.clients[1].failCount <= rc.maxRetries
     /\ ReplyAt(1)[2] = NoErr) =>
        /\ rc.called[1] <= rc.clients[1].failCount + 1
        /\ \A k \in 2..Len(rc.clients) : rc.called[k] = 0
        /\ rc.pc = "done" =>
             /\ rc.err = NoErr
             /\ rc.text = ReplyAt(1)[1]
             /\ rc.called[1] = rc.clients[1].failCount + 1
\* a primary that failed twice and then answered, under a budget of two
\* retries, with a fallback left alone
C15_Witness ==
    /\ rc.pc = "done" /\ ~rc.ctxDone /\ Len(rc.clients) = 2
    /\ rc.maxRetries = 2 /\ rc.clients[1].failCount = 2
    /\ rc.called = <<3, 0>> /\ rc.err = NoErr /\ rc.text = ReplyAt(1)[1]

\* C16: the provider at position k is invoked only after every provider at an
\* earlier position has been invoked exactly maxRetries+1 times and has
\* failed each time; and, without cancellation, with a primary that fails
\* every time and a fallback that succeeds within the budget, Generate
\* returns the fallback's text.
C16_FallbackAfterExhaustion ==
    /\ \A k \in 1..Len(rc.clients) : rc.called[k] > 0 =>
          \A j \in 1..(k - 1) :
             /\ rc.called[j] = rc.maxRetries + 1
             /\ \A i \in 1..Len(rc.log) : rc.log[i].k = j => rc.log[i].failed
    /\ \A i \in 1..(Len(rc.log) - 1) : rc.log[i].k <= rc.log[i + 1].k
    /\ (/\ rc.pc = "done" /\ ~rc.ctxDone /\ Len(rc.clients) = 2
        /\ (rc.clients[1].failCount > rc.maxRetries \/ ReplyAt(1)[2] # NoErr)
        /\ rc.clients[2].failCount <= rc.maxRetries /\ ReplyAt(2)[2] = NoErr) =>
           /\ rc.err = NoErr
           /\ rc.text = ReplyAt(2)[1]
\* a primary that used up its three attempts, then a fallback that answered
\* on its second
C16_Witness ==
    /\ rc.pc = "done" /\ ~rc.ctxDone /\ Len(rc.clients) = 2
    /\ rc.maxRetries = 2 /\ rc.called = <<3, 2>>
    /\ rc.err = NoErr /\ rc.text = ReplyAt(2)[1]

\* C17: once the caller's context is cancelled (before an attempt, during an
\* attempt that then fails, or during a backoff wait), no further provider
\* invocation is started and Generate returns the cancellation error itself,
\* not a provider failure.  (For a client with at least one provider.)
C17_CancelStopsGeneration ==
    Len(rc.clients) >= 1 =>
        /\ (rc.ctxDone /\ rc.pc = "call") => rc.cancelledAt = "call"
        /\ (rc.ctxDone /\ rc.pc = "done" /\ rc.err # NoErr) => rc.err = CtxErr

\* C18: no generation client (a provider, the mock, the resilient wrapper)
\* returns an empty or whitespace-only text with a nil error.
C18_NoEmptySuccess ==
    (rc.pc = "done" /\ rc.err = NoErr) => TrimSpace(rc.text) # EmptyText

(***************************************************************************)
(* Properties of the processing of one commit                              *)
(***************************************************************************)
\* a commit is in hand: processSingleCommit is running or has just returned
InHand == pc \notin {"idle", "loop"} /\ loc.hash # 0
\* the commit's processing is about to be counted by the loop
Ending == pc \in {"tally", "fail"} /\ pc' = "loop"
\* the commit changed no file
NoFiles(h) == commits[h].changed = <<>>
\* the commit changed files and the doc file they resolve to does not exist
TargetMissing(h) ==
    /\ commits[h].changed # <<>>
    /\ files[resolveTarget(commits[h].changed)[1]] = Missing

\* C11: a commit with an empty changed-file list ends skipped (its status
\* returned and its row, no call on the store or the commit source having
\* failed); for such a commit the provider is never called, the cache never
\* read, the doc file never read and no planned_updates row or cache entry
\* ever written.
C11_NoFilesSkipped ==
    /\ (InHand /\ NoFiles(loc.hash)) =>
          /\ pc \in {"in_progress", "plan", "tally", "fail"}
          /\ ~loc.generated /\ ~loc.cached /\ loc.docRaw = Missing
          /\ pc = "tally" => loc.status = "skipped" /\ rows[loc.hash].status = "skipped"
          /\ pc = "fail" => loc.faulted
    /\ \A k \in DOMAIN planned : ~NoFiles(k[1])
    /\ \A k \in DOMAIN cache : ~NoFiles(k.commit_hash)
    /\ \A h \in DOMAIN hist : (NoFiles(h) /\ hist[h].clean) => hist[h].status = "skipped"
\* a returned run that counted a commit without files as skipped, after a
\* commit with files
C11_Witness ==
    /\ Returned /\ ret.summary.Skipped = 1 /\ ret.summary.Success = 1
    /\ \E h \in DOMAIN hist : NoFiles(h) /\ hist[h].status = "skipped" /\ hist[h].clean
    /\ \A k \in DOMAIN planned : ~NoFiles(k[1])

C13_OneCommitPath ==
    /\ InHand => loc.commitCalls + loc.amendCalls <= 1
    /\ (InHand /\ ~loc.wrote) => loc.commitCalls = 0 /\ loc.amendCalls = 0
    /\ (InHand /\ loc.wrote /\ pc # "stage") =>
          <<loc.commitCalls, loc.amendCalls>> =
              IF ~cfg.Git.CommitDocUpdates THEN <<0, 0>>
              ELSE IF cfg.Git.AmendOriginal THEN <<0, 1>>
              ELSE <<1, 0>>
\* a commit that ends success after its document was amended into HEAD
C13_Witness ==
    /\ pc = "tally" /\ loc.status = "success" /\ loc.wrote
    /\ cfg.Git.CommitDocUpdates /\ cfg.Git.AmendOriginal
    /\ loc.amendCalls = 1 /\ loc.commitCalls = 0
    /\ head # run.head0

\* C19: when the context is cancelled while a commit's generation is under
\* way, the commit ends failed with the cancellation reason as the error
\* stored in its row (the store taking the write), it is counted in
\* Summary.Failed, and the status and doc commit of every other row stay as
\* they were.
C19_CancelFailsCommit ==
    [][(Ending /\ loc.inFlight) =>
          /\ pc = "fail" /\ loc.err = ErrCanceled
          /\ run'.summary.Failed = run.summary.Failed + 1
          /\ faults' = faults =>
                /\ rows'[loc.hash].status = "failed"
                /\ rows'[loc.hash].error = ErrCanceled
          /\ \A h \in DOMAIN rows \ {loc.hash} :
                /\ rows'[h].status = rows[h].status
                /\ rows'[h].doc_commit_hash = rows[h].doc_commit_hash]_vars

\* C20: a processed_commits row with a doc commit has status success, and the
\* doc commit is the hash a successful StageAndCommit or StageAndAmend
\* returned while that commit was being processed; a row that is pending,
\* in_progress, failed or skipped has no doc commit.
C20_DocCommitOnlyOnSuccess ==
    /\ [](/\ \A h \in DOMAIN rows :
                rows[h].doc_commit_hash # NullHash => rows[h].status = "success"
          /\ InHand => (loc.docCommitHash # 0 <=> loc.staged))
    /\ [][/\ loc'.docCommitHash \notin {0, loc.docCommitHash} =>
                /\ pc = "stage" /\ loc'.hash = loc.hash
                /\ head' = loc'.docCommitHash
                /\ Len(commits') = Len(commits) + 1
          /\ \A h \in DOMAIN rows' :
                (/\ rows'[h].doc_commit_hash # NullHash
                 /\ h \in DOMAIN rows => rows'[h].doc_commit_hash # rows[h].doc_commit_hash) =>
                    /\ pc = "mark_success" /\ h = loc.hash /\ loc.staged
                    /\ rows'[h].doc_commit_hash = loc.docCommitHash]_vars
\* a returned run that left a success row holding the doc commit, HEAD
C20_Witness ==
    /\ Returned
    /\ \E h \in DOMAIN rows :
          /\ rows[h].status = "success"
          /\ rows[h].doc_commit_hash = head /\ head # run.head0

(***************************************************************************)
(* Claims about the processed_commits table used directly (SpecStore)      *)
(***************************************************************************)
\* the row of h holds the values of the latest MarkCommitProcessed call for h
HoldsLatest(h) ==
    /\ rows[h].status = storeOp.last[h].status
    /\ rows[h].error = (IF storeOp.last[h].v.error = "" THEN NullText
                        ELSE storeOp.last[h].v.error)
    /\ rows[h].doc_commit_hash = (IF storeOp.last[h].v.docCommit = 0 THEN NullHash
                                  ELSE storeOp.last[h].v.docCommit)
    /\ rows[h].doc_files_changed = storeOp.last[h].v.files
\* s lists exactly the commits whose status is in sts, each once
ListsExactly(s, sts) ==
    /\ SeqRange(s) = {h \in DOMAIN rows : rows[h].status \in sts}
    /\ \A i, j \in DOMAIN s : i # j => s[i] # s[j]
\* the per-status counts are those of the rows and add up to their number
CountsRight(c) ==
    /\ c.Pending = Cardinality({h \in DOMAIN rows : rows[h].status = "pending"})
    /\ c.InProgress = Cardinality({h \in DOMAIN rows : rows[h].status = "in_progress"})
    /\ c.Success = Cardinality({h \in DOMAIN rows : rows[h].status = "success"})
    /\ c.Failed = Cardinality({h \in DOMAIN rows : rows[h].status = "failed"})
    /\ c.Skipped = Cardinality({h \in DOMAIN rows : rows[h].status = "skipped"})
    /\ c.Total = Cardinality(DOMAIN rows)
\* s is in the order of the calls that last wrote its commits
OldestCallFirst(s) ==
    \A i, j \in DOMAIN s : i < j => storeOp.seq[s[i]] < storeOp.seq[s[j]]
\* s is in the order of processed_at; commits stamped within one second
\* come in any order
OldestStampFirst(s) ==
    \A i, j \in DOMAIN s : i < j =>
        /\ rows[s[i]].at <= rows[s[j]].at
        /\ storeOp.seq[s[i]] > storeOp.seq[s[j]] => rows[s[i]].at = rows[s[j]].at

RefusalCase ==
    /\ upd.pc = "done" /\ upd.result # ErrBuildApp
    /\ NamesLiveProcess(upd.start)
    /\ upd.start.pid = OtherProc => lk[OtherProc].pc = "held"

\* C22: the update command run while another live process holds the run lock
\* returns success when invoked with --from-hook and the already-running
\* error otherwise; in both cases it processes no commit, leaves the commit
\* statuses of the store alone and leaves the holder's lock file in place.
C22_HookNoOpWhenLockHeld ==
    RefusalCase =>
        /\ upd.result = (IF upd.fromHook THEN "nil" ELSE "already_running")
        /\ run.n = 0 /\ rows = EmptyFn /\ hist = EmptyFn
        /\ lockFile = upd.start

(***************************************************************************)
(* Claims about the hook manager (SpecHooks)                               *)
(***************************************************************************)
\* the calls so far are Enable, one or more times
EnabledOnly ==
    /\ hooks.dir /\ hooks.log # <<>>
    /\ \A i \in DOMAIN hooks.log : hooks.log[i] = "Enable"
\* the calls so far are Enable, one or more times, and then Disable
RoundTripDone ==
    /\ hooks.dir /\ Len(hooks.log) >= 2
    /\ \A i \in 1..(Len(hooks.log) - 1) : hooks.log[i] = "Enable"
    /\ hooks.log[Len(hooks.log)] = "Disable"

\* C23: after Enable, (Enable)*, Disable a hook file that existed before
\* with content not installed by git-doc has exactly its original content
\* and no backup file, and a hook that did not exist before has no file
\* (for a hook with no backup file left from earlier); while enabled, each of
\* the three supported hooks holds the hook script.
C23_HookRoundTrip ==
    /\ EnabledOnly => \A h \in HookNames : hooks.file[h] = hookScript
    /\ RoundTripDone =>
          \A h \in HookNames :
             hooks.origBak[h] = NoHook =>
                /\ hooks.orig[h] \in {UserHook, UserHookCallingGitDoc} =>
                      hooks.file[h] = hooks.orig[h] /\ hooks.bak[h] = NoHook
                /\ hooks.orig[h] = NoHook => hooks.file[h] = NoHook

(***************************************************************************)
(* Claims about the planned updates and the steps of a processing (Spec)   *)
(***************************************************************************)
\* the loop has just counted the processing of loc.hash, whose row holds a
\* final status
JustCounted ==
    /\ pc = "loop" /\ loc.status = "returned"
    /\ loc.hash \in DOMAIN rows /\ rows[loc.hash].status \in Terminal

\* C24: once the processing of a commit has finished and the commit is
\* success, failed or skipped, every planned_updates row of that commit is
\* applied, failed or unchanged: none is left planned.
C24_NoRowLeftPlanned ==
    JustCounted =>
        \A k \in DOMAIN planned :
            k[1] = loc.hash => planned[k].status \in {"applied", "failed", "unchanged"}

\* the planned_updates row of the commit in hand
PlanKey == <<loc.hash, loc.targetDocFile, loc.targetSection>>
ErrEmptySection == "generated section content is empty"
ErrLongSection == "generated section content exceeds max size"
\* the text is only white space, or is longer than 25000 once trimmed
OnlyBlank(t) == \A i \in DOMAIN t : IsBlankLine(t[i])
TooLong(t) == ~OnlyBlank(t) /\ TextLen(TrimSpace(t)) > 25000
\* the steps that follow a text found valid
PastValidation ==
    pc \in {"mark_skipped", "mark_dry", "stage", "mark_success", "store_mapping", "mark_applied"}

\* C25: a generated or cached text that is empty or only white space, or
\* whose trimmed length exceeds 25000, never reaches the document: the
\* processing fails with the validation reason, the planned update is marked
\* failed with that reason (when that write succeeds), the doc file is left
\* as it was read, neither StageAndCommit nor StageAndAmend is called and
\* the commit is counted and (when that write succeeds) marked failed,
\* unless the process dies first; a text of exactly 25000 is not refused.
C25_InvalidTextRejected ==
    /\ [](/\ PastValidation => ~OnlyBlank(loc.newSection) /\ ~TooLong(loc.newSection)
          /\ (pc = "fail" /\ loc.err \in {ErrEmptySection, ErrLongSection}) =>
                /\ loc.commitCalls = 0 /\ loc.amendCalls = 0 /\ ~loc.wrote /\ ~loc.staged
                /\ files[loc.targetDocFile] = loc.docRaw)
    /\ [][/\ (/\ pc = "apply" /\ pc' # "idle"
              /\ OnlyBlank(loc.newSection) \/ TooLong(loc.newSection)) =>
                /\ pc' = "fail" /\ loc'.status = "failed"
                /\ loc'.err = (IF OnlyBlank(loc.newSection) THEN ErrEmptySection
                               ELSE ErrLongSection)
                /\ files' = files /\ commits' = commits /\ head' = head
                /\ faults' = faults =>
                      /\ PlanKey \in DOMAIN planned'
                      /\ planned'[PlanKey].status = "failed"
                      /\ planned'[PlanKey].reason = loc'.err
          /\ (pc = "apply" /\ pc' # "idle"
              /\ TextLen(TrimSpace(loc.newSection)) = 25000) =>
                loc'.err \notin {ErrEmptySection, ErrLongSection}
          /\ (pc = "fail" /\ pc' = "loop" /\ loc.err \in {ErrEmptySection, ErrLongSection}) =>
                /\ hist'[loc.hash].status = "failed"
                /\ run'.summary.Failed = run.summary.Failed + 1
                /\ files' = files /\ commits' = commits /\ head' = head
                /\ rows' # rows =>
                      /\ rows'[loc.hash].status = "failed"
                      /\ rows'[loc.hash].error = loc.err]_vars
\* a text of 25001 bytes found in the cache has been refused and the planned
\* update marked failed
C25_Witness ==
    /\ pc = "fail" /\ loc.err = ErrLongSection /\ loc.cached
    /\ PlanKey \in DOMAIN planned /\ planned[PlanKey].status = "failed"
    /\ planned[PlanKey].reason = ErrLongSection

\* the text in hand is valid and splicing it into the document read gives
\* that document back, outer white space aside
NoDelta ==
    /\ pc = "apply"
    /\ ~OnlyBlank(loc.newSection) /\ ~TooLong(loc.newSection)
    /\ TrimSpace(NormalizeLineEndings(
                     ReplaceSection(loc.docRaw, loc.targetSection, loc.newSection),
                     DetectLineEnding(loc.docRaw)))
          = TrimSpace(loc.docRaw)

\* C26: when the normalized replacement equals the document read, outer
\* white space aside, the processing (in dry-run and in normal mode alike)
\* writes planned update status unchanged (when that write succeeds), marks
\* the commit skipped with an empty changed-files list, does not write the
\* doc file and calls neither StageAndCommit nor StageAndAmend.
C26_NoDeltaNoCommit ==
    /\ [](pc = "mark_skipped" =>
             /\ ~loc.wrote /\ ~loc.staged /\ loc.commitCalls = 0 /\ loc.amendCalls = 0
             /\ files[loc.targetDocFile] = loc.docRaw)
    /\ [][/\ (NoDelta /\ pc' # "idle") =>
                /\ pc' = "mark_skipped"
                /\ files' = files /\ commits' = commits /\ head' = head
                /\ faults' = faults =>
                      /\ PlanKey \in DOMAIN planned'
                      /\ planned'[PlanKey].status = "unchanged"
          /\ (pc = "mark_skipped" /\ pc' # "idle") =>
                /\ files' = files /\ commits' = commits /\ head' = head
                /\ pc' \in {"tally", "fail"}
                /\ pc' = "tally" =>
                      /\ loc'.status = "skipped"
                      /\ rows'[loc.hash].status = "skipped"
                      /\ rows'[loc.hash].doc_files_changed = <<>>
                      /\ rows'[loc.hash].doc_commit_hash = NullHash
                /\ pc' = "fail" => rows' = rows /\ loc'.err = ErrStore
          /\ (pc = "tally" /\ loc.status = "skipped" /\ pc' = "loop") =>
                /\ run'.summary.Skipped = run.summary.Skipped + 1
                /\ files' = files /\ commits' = commits /\ head' = head]_vars
\* outside dry-run and with doc commits on, a commit whose generated text is
\* already in the document has been marked skipped with the planned update
\* unchanged
C26_Witness ==
    /\ pc = "tally" /\ loc.status = "skipped" /\ ~run.dryRun /\ cfg.Git.CommitDocUpdates
    /\ loc.generated /\ loc.docRaw # Missing
    /\ PlanKey \in DOMAIN planned /\ planned[PlanKey].status = "unchanged"
    /\ rows[loc.hash].status = "skipped"

(***************************************************************************)
(* Claims about target resolution (SpecTarget)                             *)
(***************************************************************************)
\* the i-th changed file of the call matches the j-th mapping
MatchAt(i, j) == mappingMatches(tgt.changedFiles[i], cfg.Mappings[j])
MatchPairs ==
    {p \in (DOMAIN tgt.changedFiles) \X (DOMAIN cfg.Mappings) : MatchAt(p[1], p[2])}

\* C27: the target is that of the first matching (file, mapping) pair, the
\* changed files taken in order and, for each file, the mappings in
\* declaration order; with no matching pair it is the first configured doc
\* file with the default section, and README.md with the default section
\* when no doc file is configured.
C27_FirstMatchWins ==
    tgt.called =>
        /\ MatchPairs # {} =>
              \E p \in MatchPairs :
                 /\ \A q \in MatchPairs : p[1] < q[1] \/ (p[1] = q[1] /\ p[2] <= q[2])
                 /\ tgt.docFile = cfg.Mappings[p[2]].DocFile
                 /\ tgt.section = cfg.Mappings[p[2]].Section
        /\ (MatchPairs = {} /\ Len(cfg.DocFiles) > 0) =>
              tgt.docFile = cfg.DocFiles[1] /\ tgt.section = cfg.Runtime.DefaultSection
        /\ (MatchPairs = {} /\ Len(cfg.DocFiles) = 0) =>
              tgt.docFile = "README.md" /\ tgt.section = cfg.Runtime.DefaultSection
\* a call where the second mapping matches the first file and the first
\* mapping matches the second file only
C27_Witness ==
    /\ tgt.called /\ Len(tgt.changedFiles) = 2 /\ Len(cfg.Mappings) = 2
    /\ MatchPairs = {<<1, 2>>, <<2, 1>>, <<2, 2>>}
    /\ tgt.section = cfg.Mappings[2].Section
    /\ cfg.Mappings[1].Section # cfg.Mappings[2].Section

\* the pattern with every '*' removed
RemoveStars(cs) == SelectSeq(cs, LAMBDA c : c # "*")

\* C28: a mapping matches a changed path exactly when its code pattern with
\* the '*' markers removed is a substring of the path ("src/*.go" is tested
\* as "src/.go"): a call with one changed file and one mapping resolves to
\* the mapping's target exactly in that case.
C28_PatternStrippedOfStars ==
    (tgt.called /\ Len(tgt.changedFiles) = 1 /\ Len(cfg.Mappings) = 1) =>
        ((tgt.docFile = cfg.Mappings[1].DocFile /\ tgt.section = cfg.Mappings[1].Section)
            <=> Contains(Chars(tgt.changedFiles[1]),
                         RemoveStars(Chars(cfg.Mappings[1].CodePattern))))

(***************************************************************************)
(* Claims about failures the loop absorbs (Spec)                           *)
(***************************************************************************)
\* the loop visits the next commit of the list and is back at its head at
\* once: marking the commit pending failed
PendingFails ==
    /\ pc = "loop" /\ pc' = "loop"
    /\ Len(run'.visited) = Len(run.visited) + 1

\* C29: when marking a commit pending fails, no step of the pipeline runs
\* for that commit (no row written, no commit read, no generation, no file
\* written), Summary.Failed is incremented for it and the loop goes on with
\* the next commit of the list.
C29_PendingFailureSkipsCommit ==
    [][PendingFails =>
          /\ rows' = rows /\ planned' = planned /\ cache' = cache /\ mappings' = mappings
          /\ files' = files /\ commits' = commits /\ head' = head
          /\ loc'.hash = 0 /\ loc'.writes = <<>> /\ ~loc'.generated /\ ~loc'.wrote
          /\ run'.summary = [run.summary EXCEPT !.Processed = @ + 1, !.Failed = @ + 1]
          /\ run'.idx = run.idx + 1 /\ run'.list = run.list
          /\ hist'[run.list[run.idx]].status = "failed"]_vars
\* the first commit of the list could not be marked pending and has no row;
\* the second has been processed to the end
C29_Witness ==
    /\ pc = "tally" /\ Len(run.visited) = 2 /\ run.idx = 2
    /\ run.visited[1] \notin DOMAIN rows
    /\ hist[run.visited[1]].status = "failed"
    /\ run.summary.Failed = 1 /\ run.summary.Processed = 2
    /\ loc.hash = run.visited[2] /\ loc.status \in {"success", "skipped"}

\* the errors processSingleCommit returns: a failed MarkCommitProcessed,
\* commit-source call, provider call, file write or StoreMapping, a
\* cancelled context, a rejected text, a missing doc file
ReturnedErrors ==
    {ErrStore, ErrGit, ErrProvider, ErrCanceled, ErrWrite, ErrMapping, ErrEmptySection,
     ErrLongSection} \cup {ErrNotFound(f) : f \in {"README.md", "docs/API.md"}}
\* the status a processing that returned no error has, by what it worked on
StatusByInputs ==
    IF loc.targetDocFile = "" THEN "skipped"
    ELSE IF TrimSpace(NormalizeLineEndings(
                          ReplaceSection(loc.docRaw, loc.targetSection, loc.newSection),
                          DetectLineEnding(loc.docRaw)))
               = TrimSpace(loc.docRaw)
    THEN "skipped"
    ELSE "success"

\* C30: a failed LogRunEvent, cache write or UpsertPlannedUpdate never makes
\* a commit end failed and never stops the loop: a processing ends failed
\* only with one of the errors processSingleCommit returns, a processing
\* that returned no error has the status its inputs give it whether or not
\* such a call failed on the way, the loop counts that status and moves to
\* the next commit, and a loop that was entered returns no error.
C30_BestEffortFailuresAbsorbed ==
    /\ [](/\ pc = "fail" => loc.err \in ReturnedErrors
          /\ pc = "tally" => loc.status = StatusByInputs
          /\ (pc = "idle" /\ ret.kind \notin {"none", "crashed"} /\ ret.err # "") =>
                ret.err = ErrSetup /\ ret.summary = Summary0)
    /\ [][/\ (pc = "tally" /\ pc' = "loop") =>
                /\ run'.idx = run.idx + 1 /\ run'.list = run.list
                /\ run'.summary =
                      [run.summary EXCEPT ![IF loc.status = "success" THEN "Success"
                                            ELSE "Skipped"] = @ + 1]
          /\ (pc = "fail" /\ pc' = "loop") =>
                /\ run'.idx = run.idx + 1 /\ run'.list = run.list
                /\ run'.summary = [run.summary EXCEPT !.Failed = @ + 1]
          /\ (pc = "loop" /\ pc' = "idle" /\ ret'.kind # "crashed") =>
                ret'.err = "" /\ ret'.summary = run.summary]_vars
\* the upsert of the final status failed and the commit has ended success,
\* its planned update still planned
C30_Witness ==
    /\ pc = "tally" /\ loc.status = "success" /\ loc.faulted
    /\ PlanKey \in DOMAIN planned /\ planned[PlanKey].status = "planned"
    /\ rows[loc.hash].status = "success"

(***************************************************************************)
(* Claims about the end of ResilientClient.Generate (SpecLLMFair)          *)
(***************************************************************************)
\* every invocation of the provider at position k fails
AlwaysFails(k) == rc.clients[k].failCount > rc.maxRetries \/ ReplyAt(k)[2] # NoErr
\* the attempts a provider is given: maxRetries + 1, a negative maxRetries
\* counting as 0
AttemptsGiven == IF rc.given < 0 THEN 1 ELSE rc.given + 1

\* C31: ResilientClient.Generate always returns; with providers that all
\* fail every time and no cancellation it has then invoked each provider
\* exactly maxRetries+1 times (a negative maxRetries counting as 0), in list
\* order, and returns an error wrapping the last provider's last failure
\* with that provider's name and attempt number; with no provider it returns
\* the 'no llm clients configured' error and invokes nothing.
C31_GenerateTerminates ==
    /\ <>(rc.pc = "done")
    /\ [](/\ (/\ rc.pc = "done" /\ ~rc.ctxDone /\ Len(rc.clients) >= 1
              /\ \A k \in 1..Len(rc.clients) : AlwaysFails(k)) =>
                /\ \A k \in 1..Len(rc.clients) : rc.called[k] = AttemptsGiven
                /\ Len(rc.log) = Len(rc.clients) * AttemptsGiven
                /\ \A i \in 1..(Len(rc.log) - 1) : rc.log[i].k <= rc.log[i + 1].k
                /\ \A i \in 1..Len(rc.log) : rc.log[i].failed
                /\ rc.text = EmptyText
                /\ rc.err.wrap = <<rc.clients[Len(rc.clients)].kind, AttemptsGiven>>
                /\ rc.err.msg = (IF rc.clients[Len(rc.clients)].failCount > rc.maxRetries
                                 THEN "transient failure"
                                 ELSE ReplyAt(Len(rc.clients))[2].msg)
          /\ (rc.pc = "done" /\ Len(rc.clients) = 0) =>
                /\ rc.err = Err("no llm clients configured")
                /\ rc.log = <<>> /\ rc.text = EmptyText)
\* two providers that failed three times each under a budget of two retries
C31_Witness ==
    /\ rc.pc = "done" /\ ~rc.ctxDone /\ Len(rc.clients) = 2
    /\ rc.given = 2 /\ rc.called = <<3, 3>> /\ Len(rc.log) = 6
    /\ rc.err.wrap = <<rc.clients[2].kind, 3>>


(***************************************************************************)
(* C32                                                                     *)
(***************************************************************************)
TxErrors == {"begin", "create", "insert", "drop", "rename", "commit"}
WasLegacy ==
    /\ "processed_commits" \in DOMAIN db.before
    /\ ~HasCurrentLayout(db.before["processed_commits"])
MigrationDone == db.pc = "open" /\ WasLegacy
MigrationFailed == db.pc = "failed" /\ db.err \in TxErrors

\* C32: a processed_commits table of an older status layout is migrated
\* atomically when the database is opened.  When the opening succeeds the
\* table accepts the five statuses and holds exactly the rows, in all their
\* columns, that it held before, and no processed_commits_new is left.  When
\* a step of the migration fails the tables are those found on disk (the
\* old-layout table with all its rows, no processed_commits_new) and the
\* opening returns an error.
C32_LegacyMigratedAtomically ==
    /\ MigrationDone =>
          /\ DOMAIN db.tables = {"processed_commits"}
          /\ db.tables["processed_commits"].checks = StatusSet
          /\ db.tables["processed_commits"].rows = db.before["processed_commits"].rows
          /\ db.migrated /\ db.err = ""
    /\ MigrationFailed =>
          /\ WasLegacy
          /\ db.tables = db.before
          /\ "processed_commits_new" \notin DOMAIN db.tables
          /\ db.err # ""
    /\ db.pc \in {"insert", "drop", "rename", "commit", "rollback"} => db.saved = db.before
C32_Witness ==
    /\ MigrationFailed /\ db.err = "rename"
    /\ Cardinality(DOMAIN db.tables["processed_commits"].rows) = 2


(***************************************************************************)
(* C33                                                                     *)
(***************************************************************************)
Listed == SeqRange(run.list)
NoDuplicates(s) == \A i, j \in 1..Len(s) : i # j => s[i] # s[j]
StoredAs(st) == {h \in Listed : h \in DOMAIN rows /\ rows[h].status = st}
\* a run over a list without duplicates has returned and none of its writes
\* of a commit's status failed
CleanListRun == Returned /\ NoDuplicates(run.list) /\ ~run.storeFailed

\* C33: when UpdateCommitList returns from a list without duplicates, every
\* write of a commit's status having succeeded, the store agrees with the
\* Summary: no listed commit is pending or in_progress, the numbers of listed
\* commits stored as success, failed and skipped are Summary.Success,
\* Summary.Failed and Summary.Skipped, every failed commit has an error text,
\* and Summary.Processed is the length of the list.
C33_StoreAgreesWithSummary ==
    CleanListRun =>
        /\ \A h \in Listed : h \in DOMAIN rows /\ rows[h].status \in Terminal
        /\ Cardinality(StoredAs("success")) = ret.summary.Success
        /\ Cardinality(StoredAs("failed")) = ret.summary.Failed
        /\ Cardinality(StoredAs("skipped")) = ret.summary.Skipped
        /\ \A h \in StoredAs("failed") : rows[h].error \notin {NullText, ""}
        /\ ret.summary.Processed = Len(run.list)
\* a run over two commits returned with one stored failed and one not
C33_Witness ==
    /\ CleanListRun /\ Len(run.list) = 2
    /\ Cardinality(StoredAs("failed")) = 1
    /\ Cardinality(StoredAs("success")) + Cardinality(StoredAs("skipped")) = 1


(***************************************************************************)
(* C34                                                                     *)
(***************************************************************************)
\* the run is an UpdateNewCommits without dryRun that follows an
\* UpdateNewCommits whose head commit ended success, the head being the same,
\* and the last finished processing of that commit is still the dry run's
AfterDryRunOf(c) ==
    /\ run.kind = "new" /\ c # 0 /\ run.prevC1 = c
    /\ ~run.dryRun /\ run.head0 = c
    /\ c \in DOMAIN hist /\ hist[c].dryRun /\ hist[c].status = "success"
NotProcessedAgain(c) ==
    /\ run.last = c
    /\ c \notin SeqRange(run.list)
    /\ ~(InHand /\ loc.hash = c)

DocCommits == {rows[c].doc_commit_hash : c \in DOMAIN rows} \ {NullHash}
InHistory(d) == d \in SeqRange(Ancestors(head))
\* an UpdateNewCommits run has just built its list
NewRunEntered == run.kind = "new" /\ pc = "loop" /\ run.idx = 1

\* C35: with commit_doc_updates on, a doc commit made by a processing (new,
\* or the amended HEAD) that is in the history and has no row yet lies in
\* the range (last success, HEAD] of the next UpdateNewCommits and is put on
\* its list like any other commit; a run that returns has taken every doc
\* commit of its range through the loop.  Nothing makes a doc commit stop the
\* sequence: processing it may create the next doc commit.
C35_DocCommitIsProcessedNext ==
    /\ NewRunEntered =>
          \A d \in DocCommits :
              (InHistory(d) /\ d \notin DOMAIN rows) =>
                  /\ run.last # d
                  /\ d \in SeqRange(run.range)
                  /\ d \in SeqRange(run.list)
    /\ (Returned /\ run.kind = "new") =>
          \A d \in DocCommits \cap SeqRange(run.range) : d \in SeqRange(run.visited)
\* the second run processed the doc commit of the first through generation,
\* write and commit, and HEAD is now a doc commit never processed
C35_Witness ==
    /\ Returned /\ run.kind = "new" /\ run.n = 2
    /\ \E d \in DocCommits \cap SeqRange(run.visited) :
          /\ d \in DOMAIN rows /\ rows[d].status = "success"
          /\ rows[d].doc_commit_hash = head
          /\ head \notin DOMAIN rows


(***************************************************************************)
(* C36                                                                     *)
(***************************************************************************)
\* the cache key of the processing in hand, and the key the inputs of a
\* commit (its changed files, message and diff, the provider and the model)
\* give
LocKey ==
    CacheKey(loc.hash, loc.targetDocFile, loc.targetSection, ProviderName, cfg.LLM.Model,
             hashPrompt(loc.prompt))
CommitKey(h) ==
    CacheKey(h, resolveTarget(GetChangedFiles(h))[1], resolveTarget(GetChangedFiles(h))[2],
             ProviderName, cfg.LLM.Model,
             hashPrompt(buildPrompt(GetCommitMessage(h), GetCommitDiff(h))))

\* C36: a generated response is cached before it is validated, so a rejected
\* response stays in the cache.  A processing of a commit looks the cache up
\* under the key its inputs give; a response generated is stored under that
\* key before validation, whatever validation will say; an entry is replaced
\* only by a later generation for the same key; and a processing that finds
\* an entry for its key takes it without calling Generate and, the entry
\* being invalid, fails with the reason validation gives for that text.
C36_RejectedResponseServedFromCache ==
    /\ [](pc \in {"cache", "generate", "apply"} => LocKey = CommitKey(loc.hash))
    /\ [][(pc = "generate" /\ pc' = "apply" /\ faults' = faults) =>
              /\ LocKey \in DOMAIN cache'
              /\ cache'[LocKey] = loc'.newSection]_vars
    /\ [][\A k \in DOMAIN cache :
              /\ k \in DOMAIN cache'
              /\ cache'[k] # cache[k] => (pc = "generate" /\ k = LocKey)]_vars
    /\ [][(pc = "cache" /\ pc' # "idle" /\ faults' = faults /\ LocKey \in DOMAIN cache) =>
              /\ pc' = "apply"
              /\ loc'.cached /\ ~loc'.generated
              /\ loc'.newSection = cache[LocKey]]_vars
    /\ [][(/\ pc = "apply" /\ pc' # "idle" /\ loc.cached
           /\ validateGeneratedSection(loc.newSection) # "") =>
              /\ pc' = "fail"
              /\ ~loc'.generated
              /\ loc'.err = validateGeneratedSection(cache[LocKey])
              /\ cache' = cache]_vars
\* a commit whose processing failed is processed again and fails on the blank
\* text found in the cache, no generation having been asked for
C36_Witness ==
    /\ pc = "fail" /\ loc.cached /\ ~loc.generated
    /\ loc.err = ErrEmptySection
    /\ loc.hash \in DOMAIN hist /\ hist[loc.hash].status = "failed"
    /\ LocKey \in DOMAIN cache /\ cache[LocKey] = loc.newSection


(***************************************************************************)
(* C37                                                                     *)
(***************************************************************************)
\* the commit in hand was processed before, that processing wrote the text
\* now found in the cache into the document and failed before staging it,
\* and the document is as that processing left it
RerunAfterStageFailure ==
    /\ pc = "apply" /\ pc' # "idle" /\ loc.cached
    /\ loc.hash \in DOMAIN hist
    /\ hist[loc.hash].status = "failed"
    /\ hist[loc.hash].unstaged = <<loc.newSection>>
    /\ hist[loc.hash].doc = loc.docRaw

\* C37: when StageAndCommit or StageAndAmend fails after the document was
\* written, the commit ends failed and the document keeps the new content;
\* the next processing of the commit, its inputs unchanged, finds no delta
\* and goes on to skipped without writing or staging, so the change stays
\* uncommitted.
C37_StageFailureLeavesChangeUncommitted ==
    /\ [][(pc = "stage" /\ pc' = "fail") =>
              /\ loc.wrote /\ files[loc.targetDocFile] = loc.updated
              /\ UNCHANGED <<files, commits, head>>
              /\ loc'.status = "failed"]_vars
    /\ [][(pc = "fail" /\ pc' = "loop" /\ loc.wrote /\ ~loc.staged) =>
              /\ hist'[loc.hash].status = "failed"
              /\ UNCHANGED <<files, commits, head>>]_vars
    /\ [][RerunAfterStageFailure =>
              /\ pc' = "mark_skipped"
              /\ UNCHANGED <<files, commits, head>>]_vars


(***************************************************************************)
(* C38                                                                     *)
(***************************************************************************)
\* the commit in hand had a doc commit linked by an earlier processing
LinkedBefore(h) ==
    /\ h \in DOMAIN hist /\ hist[h].status = "success" /\ ~hist[h].dryRun
    /\ cfg.Git.CommitDocUpdates

\* C38: submitting a commit to UpdateCommitList again clears the doc commit
\* stored for it: the pending write stores no doc commit, and as long as the
\* processing has not committed a document, and when it ends without having
\* done so, GetDocCommitHash gives the empty hash for the commit.
C38_ResubmissionClearsDocCommit ==
    /\ [][(pc = "loop" /\ pc' = "in_progress") =>
              GetDocCommitHash(rows', loc'.hash) = 0]_vars
    /\ [](InHand /\ ~loc.staged => GetDocCommitHash(rows, loc.hash) = 0)
    /\ [][(Ending /\ ~loc.staged) => GetDocCommitHash(rows', loc.hash) = 0]_vars
\* a commit that had a doc commit has been processed again, found no delta
\* and ended skipped: the store links it to no doc commit
C38_Witness ==
    /\ pc = "tally" /\ loc.status = "skipped" /\ ~loc.staged
    /\ LinkedBefore(loc.hash)
    /\ GetDocCommitHash(rows, loc.hash) = 0
    /\ \E d \in 1..Len(commits) : commits[d].changed = <<loc.targetDocFile>>


(***************************************************************************)
(* C39                                                                     *)
(***************************************************************************)
\* the step is one of a run whose context is cancelled, nothing fails in it
\* and the process does not die in it
CancelledStep(at) == ctxDone /\ pc = at /\ pc' # "idle" /\ faults' = faults
\* the cached text in hand is valid and changes the document
CachedDelta ==
    /\ loc.cached /\ validateGeneratedSection(loc.newSection) = ""
    /\ ~Unchanged(NormalizeLineEndings(
                      ReplaceSection(loc.docRaw, loc.targetSection, loc.newSection),
                      DetectLineEnding(loc.docRaw)), loc.docRaw)

\* C39: UpdateCommitList does not look at the cancellation of its context.
\* After the cancellation every remaining commit of the list is still marked
\* pending and processed, so that the Summary returned has Processed = the
\* length of the list; and a remaining commit whose response is found in the
\* cache is not stopped by the cancellation: outside dry-run its document is
\* written, committed when commit_doc_updates is on, and the commit marked
\* success.
C39_CancellationDoesNotStopTheLoop ==
    /\ []((Returned /\ ctxDone) =>
              /\ ret.summary.Processed = Len(run.list)
              /\ run.visited = run.list)
    /\ [][(CancelledStep("loop") /\ run.idx <= Len(run.list)) =>
              /\ pc' = "in_progress" /\ loc'.hash = run.list[run.idx]
              /\ rows'[loc'.hash].status = "pending"
              /\ run'.summary.Processed = run.summary.Processed + 1]_vars
    /\ []((ctxDone /\ InHand /\ loc.cached) => (~loc.generated /\ loc.err # ErrCanceled))
    /\ [][(CancelledStep("apply") /\ CachedDelta /\ ~run.dryRun) =>
              /\ files'[loc.targetDocFile] # files[loc.targetDocFile]
              /\ pc' = IF cfg.Git.CommitDocUpdates THEN "stage" ELSE "mark_success"]_vars
    /\ [][(CancelledStep("stage") /\ loc.cached) =>
              /\ head' \notin 1..Len(commits) /\ loc'.docCommitHash = head'
              /\ pc' = "mark_success"]_vars
    /\ [][(CancelledStep("mark_success") /\ loc.cached) =>
              /\ rows'[loc.hash].status = "success"
              /\ GetDocCommitHash(rows', loc.hash) = loc.docCommitHash]_vars
\* after the cancellation a commit was served from the cache, its document
\* written and committed and the commit marked success
C39_Witness ==
    /\ ctxDone /\ pc = "tally" /\ loc.cached /\ loc.wrote /\ loc.staged
    /\ loc.status = "success"
    /\ rows[loc.hash].status = "success" /\ rows[loc.hash].doc_commit_hash = head
    /\ run.summary.Processed = 2


(***************************************************************************)
(* C40                                                                     *)
(***************************************************************************)
Successes == WithStatus(rows, {"success"})
\* o is a success row written by the processing made last among those of
\* the success rows
ProcessedLast(o) ==
    /\ o \in Successes /\ o \in DOMAIN hist /\ hist[o].status = "success"
    /\ \A k \in Successes \ {o} : k \in DOMAIN hist /\ hist[k].seq < hist[o].seq
\* o is the success row with the latest processing time, no other success
\* row sharing it
StampedLast(o) ==
    /\ o \in Successes
    /\ \A k \in Successes \ {o} : rows[k].at < rows[o].at
\* o lies before n in the history
OlderThan(o, n) == o # n /\ o \in SeqRange(Ancestors(n))
\* the run enumerates from o: every commit of the history of HEAD that is
\* not in the history of o, whatever its row says
EnumeratesFrom(o) ==
    /\ run.last = o
    /\ run.range = SelectSeq(Ancestors(head), LAMBDA h : h \notin SeqRange(Ancestors(o)))
    /\ SeqRange(run.range) \subseteq SeqRange(run.list)

=============================================================================
